---- MODULE Spec2Model ----
(***************************************************************************)
(* PDF redaction service: rotation-aware coordinate transform              *)
(* (redactor.py), redaction and signature-cover engines (redactor.py),     *)
(* IoU deduplication (signature_detector_yolo.py) and the HTTP handlers    *)
(* that drive them (main.py).                                              *)
(*                                                                         *)
(* Coordinates are Python floats.  They are modelled as binary floating    *)
(* point numbers with MantBits significant bits on the integer grid: every *)
(* +, - and * of the source is the exact result rounded to nearest, ties   *)
(* to even.  Integers below 2^MantBits are exact, as integers below 2^53   *)
(* are for a double.                                                       *)
(***************************************************************************)
EXTENDS Integers, Sequences, FiniteSets, TLC

VARIABLES
    \* transform_rect_for_rotation call: inputs, position, returned value
    t_in, t_pc, t_out,
    \* _calculate_iou / _is_duplicate call: inputs, position, returned value
    d_in, d_pc, d_out,
    \* one request or one direct engine call:
    e_in,    \* entry point, uploaded document, rectangle payload, failure plan
    e_pc,    \* position in the handler / engine
    e_doc,   \* the document open in memory (fitz.Document), its pages
    e_job,   \* locals of the engine: groups by page, loop positions, counters
    e_out,   \* what doc.save wrote (output file or byte buffer)
    e_ret,   \* what the engine returned to its caller
    e_resp,  \* the HTTP response of the handler
    e_tmp,   \* temporary files of the /redact handler and scheduled clean-ups
    \* one detection call (detect_signatures_yolo and its callers):
    y_in,    \* entry point, document, existing rectangles, confidence, model output
    y_pc,    \* position in the caller / detector
    y_job,   \* locals of the detector: threshold, page_num, results, box index
    y_det,   \* detected_signatures
    y_last,  \* the detector box last post-processed and the record built from it
    y_ret,   \* what detect_signatures_yolo returned
    y_resp,  \* what the caller of the detector got or answered
    \* the module globals of signature_detector_yolo.py and the threads in _get_model:
    g_model, g_processor, g_available,
    g_made,  \* instances from_pretrained has created so far
    g_pc,    \* per thread: position in _get_model
    g_loc,   \* per thread: calls made, value returned by the last call
    g_hist,  \* what has happened so far: instances returned, loads completed
    \* one request to the log API (centralized_logging/endpoints.py):
    a_in,    \* API_BEARER_TOKEN of the environment, the Authorization header
    a_pc,    \* position of the request
    a_out    \* what verify_bearer_token did, and the status answered

xvars == <<t_in, t_pc, t_out>>
dvars == <<d_in, d_pc, d_out>>
evars == <<e_in, e_pc, e_doc, e_job, e_out, e_ret, e_resp, e_tmp>>
yvars == <<y_in, y_pc, y_job, y_det, y_last, y_ret, y_resp>>
gvars == <<g_model, g_processor, g_available, g_made, g_pc, g_loc, g_hist>>
avars == <<a_in, a_pc, a_out>>
vars == <<t_in, t_pc, t_out, d_in, d_pc, d_out,
          e_in, e_pc, e_doc, e_job, e_out, e_ret, e_resp, e_tmp,
          y_in, y_pc, y_job, y_det, y_last, y_ret, y_resp,
          g_model, g_processor, g_available, g_made, g_pc, g_loc, g_hist,
          a_in, a_pc, a_out>>

-----------------------------------------------------------------------------
(* Bounds *)

\* significant bits of the modelled float format
MantBits == 8
\* largest mediabox side drawn for the transform inputs
MaxDim == 3
\* largest width and height of the boxes drawn for _calculate_iou
MaxSide == 2
\* longest existing and detected lists drawn for _is_duplicate
MaxList == 1
\* longest rectangle payload drawn for the engines and handlers
MaxRects == 2
\* binary places below one point that the detector's coordinates keep
GridBits == 2
\* most boxes the vision model reports on the first page
MaxBoxes == 2
\* most boxes of the first page and caller's rectangles of one call together
MaxCompared == 3
\* threads that call _get_model, and calls each of them makes
MaxThreads == 2
MaxCalls == 2
\* most pieces an Authorization header is put together from
MaxPieces == 4

None == "None"

-----------------------------------------------------------------------------
(* Python float arithmetic *)

RECURSIVE Pow2(_)
Pow2(k) == IF k <= 0 THEN 1 ELSE 2 * Pow2(k - 1)

Max(a, b) == IF a >= b THEN a ELSE b
Min(a, b) == IF a <= b THEN a ELSE b

\* the spacing of the floats around magnitude a: the least power of two s
\* with a < 2^MantBits * s
RECURSIVE Ulp(_, _)
Ulp(a, s) == IF a < Pow2(MantBits) * s THEN s ELSE Ulp(a, 2 * s)

\* round a magnitude to MantBits significant bits, to nearest, ties to even
RoundMag(a) ==
    LET s == Ulp(a, 1)
        q == a \div s
        r == a % s
    IN  IF 2 * r < s THEN q * s
        ELSE IF 2 * r > s THEN (q + 1) * s
        ELSE IF q % 2 = 0 THEN q * s ELSE (q + 1) * s

Fl(n) == IF n < 0 THEN 0 - RoundMag(0 - n) ELSE RoundMag(n)

FAdd(a, b) == Fl(a + b)
FSub(a, b) == Fl(a - b)
FMul(a, b) == Fl(a * b)

\* the quotient n / d (d > 0) rounded to MantBits significant bits, to
\* nearest, ties to even; the grid is the least spacing
RoundQuot(n, d) ==
    LET s == Ulp(n \div d, 1)
        q == n \div (d * s)
        r == n % (d * s)
    IN  IF 2 * r < d * s THEN q * s
        ELSE IF 2 * r > d * s THEN (q + 1) * s
        ELSE IF q % 2 = 0 THEN q * s ELSE (q + 1) * s

FlQuot(n, d) == IF n < 0 THEN 0 - RoundQuot(0 - n, d) ELSE RoundQuot(n, d)

\* the float literal 0.05: the float nearest to 1/20, PadNum / PadDen
PadDen == Pow2(MantBits + 4)
PadNum == (2 * PadDen + 20) \div 40

\* a * 0.05
FMulPad(a) == FlQuot(a * PadNum, PadDen)

\* A float that need not be whole, the quotient of a division: m / 2^e with
\* 2^(MantBits-1) <= m < 2^MantBits, or zero.
FZero == [m |-> 0, e |-> 0]
FOne == [m |-> Pow2(MantBits - 1), e |-> MantBits - 1]
FHalf == [m |-> Pow2(MantBits - 1), e |-> MantBits]
FQuarter == [m |-> Pow2(MantBits - 1), e |-> MantBits + 1]

\* least e >= 0 with a * 2^e >= 2^(MantBits-1) * b
RECURSIVE DivExp(_, _, _)
DivExp(a, b, e) ==
    IF a >= Pow2(MantBits - 1) * b THEN e ELSE DivExp(2 * a, b, e + 1)

\* a / b for floats 0 < a < 2^MantBits * b, rounded to nearest, ties to even
FDiv(a, b) ==
    LET e == DivExp(a, b, 0)
        n == a * Pow2(e)
        q == n \div b
        r == n % b
        m == IF 2 * r < b THEN q
             ELSE IF 2 * r > b THEN q + 1
             ELSE IF q % 2 = 0 THEN q ELSE q + 1
    IN  IF m = Pow2(MantBits) THEN [m |-> Pow2(MantBits - 1), e |-> e - 1]
        ELSE [m |-> m, e |-> e]

\* p > q for two such floats, none negative
FGt(p, q) ==
    IF p.m = 0 THEN FALSE
    ELSE IF q.m = 0 THEN TRUE
    ELSE p.e < q.e \/ (p.e = q.e /\ p.m > q.m)

-----------------------------------------------------------------------------
(* fitz.Rect and transform_rect_for_rotation (redactor.py) *)

\* fitz.Rect(x0, y0, x1, y1)
Rect(x0, y0, x1, y1) == [x0 |-> x0, y0 |-> y0, x1 |-> x1, y1 |-> y1]

\* fitz.Rect(x, y, x + w, y + h): how both engines build the displayed rectangle
RectXYWH(x, y, w, h) == Rect(x, y, FAdd(x, w), FAdd(y, h))

\* a mediabox: the internal (unrotated) page size
Mediabox(w, h) == [width |-> w, height |-> h]

\* mutant: the 90 degree case measures from the mediabox width
TransformRectWidth90(rect, rotation, mediabox) ==
    LET x == rect.x0
        y == rect.y0
        w == FSub(rect.x1, rect.x0)
        h == FSub(rect.y1, rect.y0)
    IN  IF rotation = 90
        THEN LET new_x == FSub(FSub(mediabox.width, y), h)
             IN  Rect(new_x, x, FAdd(new_x, h), FAdd(x, w))
        ELSE IF rotation = 180
        THEN LET new_x == FSub(FSub(mediabox.width, x), w)
                 new_y == FSub(FSub(mediabox.height, y), h)
             IN  Rect(new_x, new_y, FAdd(new_x, w), FAdd(new_y, h))
        ELSE IF rotation = 270
        THEN LET new_x == FSub(FSub(mediabox.width, y), h)
             IN  Rect(new_x, x, FAdd(new_x, h), FAdd(x, w))
        ELSE rect

TransformRect(rect, rotation, mediabox) ==
    IF rotation = 0 THEN rect
    ELSE
    LET x == rect.x0
        y == rect.y0
        w == FSub(rect.x1, rect.x0)
        h == FSub(rect.y1, rect.y0)
    IN  IF rotation = 90
        THEN LET new_x == FSub(FSub(mediabox.height, y), h)
                 new_y == x
                 new_w == h
                 new_h == w
             IN  Rect(new_x, new_y, FAdd(new_x, new_w), FAdd(new_y, new_h))
        ELSE IF rotation = 180
        THEN LET new_x == FSub(FSub(mediabox.width, x), w)
                 new_y == FSub(FSub(mediabox.height, y), h)
             IN  Rect(new_x, new_y, FAdd(new_x, w), FAdd(new_y, h))
        ELSE IF rotation = 270
        THEN LET new_x == FSub(FSub(mediabox.width, y), h)
                 new_y == x
                 new_w == h
                 new_h == w
             IN  Rect(new_x, new_y, FAdd(new_x, new_w), FAdd(new_y, new_h))
        ELSE rect

-----------------------------------------------------------------------------
(* Specification SpecXform: one call of transform_rect_for_rotation *)

\* rotation values: the four page rotations and one undocumented value
Rotations == {0, 90, 180, 270, 45}

\* displayed size of a page with the given mediabox and rotation (page.rect)
DisplayedWidth(rotation, mediabox) ==
    IF rotation \in {90, 270} THEN mediabox.height ELSE mediabox.width
DisplayedHeight(rotation, mediabox) ==
    IF rotation \in {90, 270} THEN mediabox.width ELSE mediabox.height

XformInput(x, y, w, h, rotation, mw, mh) ==
    [x |-> x, y |-> y, w |-> w, h |-> h, rotation |-> rotation,
     mediabox |-> Mediabox(mw, mh)]

IdleXform == t_in = None /\ t_pc = "idle" /\ t_out = None
IdleDedup == d_in = None /\ d_pc = "idle" /\ d_out = None
IdleEngine ==
    /\ e_in = None /\ e_pc = "idle" /\ e_doc = None /\ e_job = None
    /\ e_out = None /\ e_ret = None /\ e_resp = None /\ e_tmp = None
IdleDetect ==
    /\ y_in = None /\ y_pc = "idle" /\ y_job = None /\ y_det = None
    /\ y_last = None /\ y_ret = None /\ y_resp = None
IdleModel ==
    /\ g_model = None /\ g_processor = None /\ g_available = None
    /\ g_made = None /\ g_pc = None /\ g_loc = None /\ g_hist = None
IdleAuth ==
    /\ a_in = None /\ a_pc = "idle" /\ a_out = None

\* small rectangles on small pages, and the worked example of the design
InitXform ==
    /\ \/ \E x \in 0..(MaxDim - 1), y \in 0..(MaxDim - 1),
             w \in 1..MaxDim, h \in 1..MaxDim, r \in Rotations,
             mw \in 1..MaxDim, mh \in 1..MaxDim :
             t_in = XformInput(x, y, w, h, r, mw, mh)
       \/ \E r \in Rotations : t_in = XformInput(100, 200, 150, 20, r, 612, 792)
    /\ t_pc = "call"
    /\ t_out = None
    /\ IdleDedup
    /\ IdleEngine
    /\ IdleDetect
    /\ IdleModel
    /\ IdleAuth

CallTransform ==
    /\ t_pc = "call"
    /\ t_out' = TransformRect(RectXYWH(t_in.x, t_in.y, t_in.w, t_in.h),
                              t_in.rotation, t_in.mediabox)
    /\ t_pc' = "done"
    /\ UNCHANGED <<t_in, dvars, evars, yvars, gvars, avars>>

NextXform == CallTransform

SpecXform == InitXform /\ [][NextXform]_vars

-----------------------------------------------------------------------------
(* _calculate_iou and _is_duplicate (signature_detector_yolo.py) *)

\* a rectangle record of the JSON payloads and of the detector's output
Box(pageIndex, x, y, width, height) ==
    [pageIndex |-> pageIndex, x |-> x, y |-> y, width |-> width, height |-> height]

\* a rectangle record with the optional labels text and category
Labelled(box, text, category) ==
    [pageIndex |-> box.pageIndex, x |-> box.x, y |-> box.y, width |-> box.width,
     height |-> box.height, text |-> text, category |-> category]

\* a JSON string "\ud800": a str that holds half of a surrogate pair, which
\* print cannot encode
LoneSurrogate == "lone surrogate"

\* a rectangle record with the optional key confidence
WithConfidence(box, confidence) ==
    [pageIndex |-> box.pageIndex, x |-> box.x, y |-> box.y, width |-> box.width,
     height |-> box.height, confidence |-> confidence]

\* a JSON value that is no number (the string "high"), which the format
\* specification .2% rejects
NotANumber == [text |-> "high"]

\* a payload rectangle that carries no pageIndex key
BoxNoPage(x, y, width, height) ==
    [x |-> x, y |-> y, width |-> width, height |-> height]

CalculateIou(box1, box2) ==
    LET x1_1 == box1.x
        y1_1 == box1.y
        x2_1 == FAdd(x1_1, box1.width)
        y2_1 == FAdd(y1_1, box1.height)
        x1_2 == box2.x
        y1_2 == box2.y
        x2_2 == FAdd(x1_2, box2.width)
        y2_2 == FAdd(y1_2, box2.height)
        xi1 == Max(x1_1, x1_2)
        yi1 == Max(y1_1, y1_2)
        xi2 == Min(x2_1, x2_2)
        yi2 == Min(y2_1, y2_2)
    IN  IF xi2 <= xi1 \/ yi2 <= yi1 THEN FZero
        ELSE
        LET intersection == FMul(FSub(xi2, xi1), FSub(yi2, yi1))
            area1 == FMul(box1.width, box1.height)
            area2 == FMul(box2.width, box2.height)
            union == FSub(FAdd(area1, area2), intersection)
        IN  IF union <= 0 THEN FZero ELSE FDiv(intersection, union)

\* existing.get("pageIndex") != new_sig["pageIndex"]
PageIndexDiffers(existing, new_sig) ==
    IF "pageIndex" \in DOMAIN existing
    THEN existing.pageIndex # new_sig.pageIndex
    ELSE TRUE

\* the loop of _is_duplicate from position i of all_existing
RECURSIVE ScanDuplicate(_, _, _, _)
ScanDuplicate(new_sig, all_existing, i, overlap_threshold) ==
    IF i > Len(all_existing) THEN FALSE
    ELSE IF PageIndexDiffers(all_existing[i], new_sig)
    THEN ScanDuplicate(new_sig, all_existing, i + 1, overlap_threshold)
    ELSE IF FGt(CalculateIou(new_sig, all_existing[i]), overlap_threshold)
    THEN TRUE
    ELSE ScanDuplicate(new_sig, all_existing, i + 1, overlap_threshold)

\* mutant: an IoU equal to the threshold counts as a duplicate
IsDuplicateAtLeast(new_sig, existing_signatures, detected_signatures, overlap_threshold) ==
    \E i \in 1..Len(existing_signatures \o detected_signatures) :
        LET existing == (existing_signatures \o detected_signatures)[i]
        IN  /\ ~PageIndexDiffers(existing, new_sig)
            /\ ~FGt(overlap_threshold, CalculateIou(new_sig, existing))

\* mutant: only the caller's rectangles are scanned
IsDuplicateOfExisting(new_sig, existing_signatures, detected_signatures, overlap_threshold) ==
    ScanDuplicate(new_sig, existing_signatures, 1, overlap_threshold)

IsDuplicate(new_sig, existing_signatures, detected_signatures, overlap_threshold) ==
    ScanDuplicate(new_sig, existing_signatures \o detected_signatures, 1,
                  overlap_threshold)

-----------------------------------------------------------------------------
(* Specification SpecIoU: one call of _calculate_iou or of _is_duplicate *)

\* sequences over S of length at most n
SeqsUpTo(S, n) == UNION { [1..k -> S] : k \in 0..n }

\* boxes for _calculate_iou: small ones, and ones whose right edge x + width
\* is not a number of the float format (rounded down for the widths drawn,
\* rounded up for the width 4)
IouBoxes ==
    { Box(0, x, y, w, h) :
        x \in {0, 1, Pow2(MantBits) - 1}, y \in {0, 1},
        w \in 1..MaxSide, h \in 1..MaxSide }
    \cup { Box(0, Pow2(MantBits) - 1, 0, 4, 1) }

\* boxes for _is_duplicate: widths 1..3 at the origin give IoUs of 1/3, 1/2,
\* 2/3 and 1 with each other; one box apart from the unit box
DupGeometry == { <<0, 1>>, <<0, 2>>, <<0, 3>>, <<2, 1>> }
DupNew == { Box(p, g[1], 0, g[2], 1) : p \in {0, 1}, g \in DupGeometry }
DupDetected == DupNew
DupExisting == DupNew \cup { BoxNoPage(0, 0, 2, 1) }

\* the arguments of one call
IouCall(a, b) == [op |-> "iou", box1 |-> a, box2 |-> b]
DupCall(n, ex, det, th) ==
    [op |-> "dup", new_sig |-> n, existing |-> ex, detected |-> det, threshold |-> th]

InitIoU ==
    /\ \/ \E a \in IouBoxes, b \in IouBoxes : d_in = IouCall(a, b)
       \/ \E n \in DupNew, ex \in SeqsUpTo(DupExisting, MaxList),
             det \in SeqsUpTo(DupDetected, MaxList), th \in {FHalf, FQuarter} :
             d_in = DupCall(n, ex, det, th)
    /\ d_pc = "call"
    /\ d_out = None
    /\ IdleXform
    /\ IdleEngine
    /\ IdleDetect
    /\ IdleModel
    /\ IdleAuth

\* _calculate_iou on (box1, box2), on (box2, box1) and on (box1, box1)
CallIou ==
    /\ d_pc = "call"
    /\ d_in.op = "iou"
    /\ d_out' = [ab |-> CalculateIou(d_in.box1, d_in.box2),
                 ba |-> CalculateIou(d_in.box2, d_in.box1),
                 aa |-> CalculateIou(d_in.box1, d_in.box1)]
    /\ d_pc' = "done"
    /\ UNCHANGED <<d_in, xvars, evars, yvars, gvars, avars>>

CallIsDuplicate ==
    /\ d_pc = "call"
    /\ d_in.op = "dup"
    /\ d_out' = IsDuplicate(d_in.new_sig, d_in.existing, d_in.detected,
                            d_in.threshold)
    /\ d_pc' = "done"
    /\ UNCHANGED <<d_in, xvars, evars, yvars, gvars, avars>>

NextIoU == CallIou \/ CallIsDuplicate

SpecIoU == InitIoU /\ [][NextIoU]_vars

-----------------------------------------------------------------------------
(* Documents and rectangle payloads *)

\* a redaction annotation of a page: its region, and whether the uploaded
\* file already carried it ("file") or this call registered it ("call")
Annot(rect, by) == [rect |-> rect, by |-> by]

\* a page: display rotation, mediabox, pending redaction annotations, the
\* regions whose content was removed, the shapes drawn over its content
Page(rotation, w, h, annots) ==
    [rotation |-> rotation, mediabox |-> Mediabox(w, h), annots |-> annots,
     removed |-> {}, shapes |-> <<>>]

\* len(doc)
PageCount(doc) == Len(doc)

\* doc[page_idx], as a position of the page sequence: a negative index counts
\* from the end
PageNo(doc, page_idx) == (page_idx % Len(doc)) + 1

\* uploaded documents: an upright and a rotated 4 x 6 page; the second
\* document carries a redaction annotation that was never applied
DocPlain == << Page(0, 4, 6, <<>>), Page(90, 4, 6, <<>>) >>
DocMarked ==
    << Page(0, 4, 6, <<>>), Page(90, 4, 6, << Annot(Rect(0, 0, 1, 1), "file") >>) >>

\* the bytes of a document: its pages, and whether doc.save re-encoded them
\* (garbage collection, deflate, clean) or they are the uploaded bytes
Bytes(pages, resaved) == [present |-> TRUE, pages |-> pages, resaved |-> resaved]
NoBytes == [present |-> FALSE, pages |-> <<>>, resaved |-> FALSE]

\* rectangle sizes against the 4 x 6 page: small; exactly half of the upright
\* page; wider than half of it (half of the rotated page); taller than half
RectSizes == { <<1, 1>>, <<2, 3>>, <<3, 1>>, <<1, 4>> }

\* payload entries: rectangles on the two pages and on a page after the last,
\* one with a negative pageIndex, one without pageIndex, one without x, and
\* rectangles with the optional keys text, category, confidence
PayloadItems ==
    { Box(p, 1, 2, sz[1], sz[2]) : p \in 0..2, sz \in RectSizes }
    \cup { Box(0 - 1, 1, 2, 1, 1) }
    \cup { BoxNoPage(1, 2, 1, 1) }
    \cup { [pageIndex |-> 0, y |-> 2, width |-> 1, height |-> 1] }
    \cup { Labelled(Box(0, 1, 2, 1, 1), "John Doe", "Person"),
           Labelled(Box(0, 1, 2, 1, 1), "John Doe", LoneSurrogate),
           WithConfidence(Box(0, 1, 2, 1, 1), NotANumber) }

\* the rectangle payload as text: not JSON, JSON that is no array, an array
Payload(kind, items) == [kind |-> kind, items |-> items]
Payloads ==
    { Payload("badjson", <<>>), Payload("notlist", <<>>) }
    \cup { Payload("list", items) : items \in SeqsUpTo(PayloadItems, MaxRects) }

\* a failure of the document library: which call raises, and at which use
Fault(step, at) == [step |-> step, at |-> at]
NoFault == Fault("none", 0)
Faults ==
    { NoFault, Fault("open", 1), Fault("annot", 1), Fault("annot", 2),
      Fault("apply", 2), Fault("save", 1) }

\* what else can stop a handler early: an upload that is no PDF, and (for
\* the signature handlers) a detector that did not load at start-up
BadFile == Fault("badfile", 1)
NoYolo == Fault("noyolo", 1)

\* what detect_all_signatures_yolo hands back: records of the detector
DetBox(p, x, y, w, h) ==
    [pageIndex |-> p, x |-> x, y |-> y, width |-> w, height |-> h,
     text |-> "Signature", category |-> "Signature", confidence |-> FHalf]
DetItems == { DetBox(0, 1, 2, 1, 1), DetBox(1, 1, 2, 2, 3) }

RectKeys == {"x", "y", "width", "height"}

\* the dict of lists built by the grouping loop, in insertion order; ok is
\* false when an entry has no pageIndex (KeyError)
RECURSIVE GroupFrom(_, _, _)
GroupFrom(items, i, groups) ==
    IF i > Len(items) THEN [ok |-> TRUE, groups |-> groups]
    ELSE IF "pageIndex" \notin DOMAIN items[i] THEN [ok |-> FALSE, groups |-> groups]
    ELSE
    LET page_idx == items[i].pageIndex
        at == { k \in 1..Len(groups) : groups[k].page_idx = page_idx }
    IN  IF at = {}
        THEN GroupFrom(items, i + 1,
                       Append(groups, [page_idx |-> page_idx, items |-> <<items[i]>>]))
        ELSE GroupFrom(items, i + 1,
                       [groups EXCEPT ![CHOOSE k \in at : TRUE].items = Append(@, items[i])])

GroupByPage(items) == GroupFrom(items, 1, <<>>)

\* mutant: a page index equal to the page count passes the range check
PageOutOfRangeAbove(page_idx, doc) == page_idx > PageCount(doc)

\* page_idx >= len(doc)
PageOutOfRange(page_idx, doc) == page_idx >= PageCount(doc)

\* redaction.get('category', 'Unknown')
Category(redaction) ==
    IF "category" \in DOMAIN redaction THEN redaction.category ELSE "Unknown"

\* whether print(f"... [{category}] ...") raises UnicodeEncodeError
PrintRaises(category) == category = LoneSurrogate

\* sig.get('confidence', 0)
Confidence(sig) ==
    IF "confidence" \in DOMAIN sig THEN sig.confidence ELSE FZero

\* whether f"{confidence:.2%}" raises
FormatRaises(confidence) == confidence = NotANumber

\* mutant: the size check compares against the whole page side
OversizedWholePage(item, page) ==
    \/ item.width > DisplayedWidth(page.rotation, page.mediabox)
    \/ item.height > DisplayedHeight(page.rotation, page.mediabox)

\* w > page_rect.width * 0.5 or h > page_rect.height * 0.5; halving a float
\* is exact, so the comparison is the one of the doubled sides
Oversized(item, page) ==
    \/ 2 * item.width > DisplayedWidth(page.rotation, page.mediabox)
    \/ 2 * item.height > DisplayedHeight(page.rotation, page.mediabox)

\* the internal rectangle both engines compute for a payload entry
InternalRect(item, page) ==
    TransformRect(RectXYWH(item.x, item.y, item.width, item.height),
                  page.rotation, page.mediabox)

\* locals of an engine call
Job(sigs) ==
    [sigs |-> sigs, groups |-> <<>>, gi |-> 1, ri |-> 1, pi |-> 1, calls |-> 0,
     applied |-> <<>>]
NoJob == Job(<<>>)

\* the next entry of the nested loops over groups and their entries
Advance(job) ==
    IF job.ri < Len(job.groups[job.gi].items)
    THEN [job EXCEPT !.ri = @ + 1]
    ELSE [job EXCEPT !.gi = @ + 1, !.ri = 1]

SkipGroup(job) == [job EXCEPT !.gi = @ + 1, !.ri = 1]

NoResp == [status |-> 0, body |-> NoBytes, headers |-> {}]
Resp(status, body, headers) == [status |-> status, body |-> body, headers |-> headers]

NoTmp == [input |-> "none", redactions |-> "none", output |-> "none", scheduled |-> {}]

-----------------------------------------------------------------------------
(* redact_pdf (redactor.py) *)

\* fitz.open(input_path)
ROpen ==
    /\ e_pc = "r_open"
    /\ IF e_in.fault.step = "open"
       THEN /\ e_ret' = "False"
            /\ e_pc' = "r_returned"
            /\ UNCHANGED <<e_doc, e_job>>
       ELSE /\ e_doc' = e_in.doc
            /\ e_job' = [e_job EXCEPT !.applied = [i \in 1..Len(e_in.doc) |-> 0]]
            /\ e_pc' = "r_load"
            /\ UNCHANGED e_ret
    /\ UNCHANGED <<e_in, e_out, e_resp, e_tmp, xvars, dvars, yvars, gvars, avars>>

\* json.load of the rectangle file, len(redactions), the grouping loop
RLoad ==
    /\ e_pc = "r_load"
    /\ LET g == GroupByPage(e_in.payload.items)
       IN  IF e_in.payload.kind # "list" \/ ~g.ok
           THEN /\ e_ret' = "False"
                /\ e_pc' = "r_returned"
                /\ UNCHANGED e_job
           ELSE /\ e_job' = [e_job EXCEPT !.groups = g.groups, !.gi = 1, !.ri = 1]
                /\ e_pc' = "r_annot"
                /\ UNCHANGED e_ret
    /\ UNCHANGED <<e_in, e_doc, e_out, e_resp, e_tmp, xvars, dvars, yvars, gvars, avars>>

\* mutant: the apply pass begins once the first group has been registered
AnnotLoopDoneAfterFirst(job) == job.gi > Min(1, Len(job.groups))

\* the loop over redactions_by_page has come to its end
AnnotLoopDone(job) == job.gi > Len(job.groups)

\* one pass of the loops of lines 85-128: a group whose page is out of range
\* is skipped whole; else the next rectangle of the group is read, checked
\* for size, transformed and registered with page.add_redact_annot; the
\* skip and the registration are each followed by a print of the category
RAnnot ==
    /\ e_pc = "r_annot"
    /\ IF AnnotLoopDone(e_job)
       THEN /\ e_pc' = "r_apply"
            /\ e_job' = [e_job EXCEPT !.pi = 1]
            /\ UNCHANGED <<e_doc, e_ret>>
       ELSE
       LET group == e_job.groups[e_job.gi]
       IN  IF PageOutOfRange(group.page_idx, e_doc)
           THEN /\ e_job' = SkipGroup(e_job)
                /\ UNCHANGED <<e_doc, e_ret, e_pc>>
           ELSE
           LET n == PageNo(e_doc, group.page_idx)
               page == e_doc[n]
               redaction == group.items[e_job.ri]
           IN  IF ~(RectKeys \subseteq DOMAIN redaction)
               THEN /\ e_ret' = "False"
                    /\ e_pc' = "r_returned"
                    /\ UNCHANGED <<e_doc, e_job>>
               ELSE IF Oversized(redaction, page)
               THEN IF PrintRaises(Category(redaction))
                    THEN /\ e_ret' = "False"
                         /\ e_pc' = "r_returned"
                         /\ UNCHANGED <<e_doc, e_job>>
                    ELSE /\ e_job' = Advance(e_job)
                         /\ UNCHANGED <<e_doc, e_ret, e_pc>>
               ELSE IF e_in.fault = Fault("annot", e_job.calls + 1)
               THEN /\ e_ret' = "False"
                    /\ e_pc' = "r_returned"
                    /\ UNCHANGED <<e_doc, e_job>>
               ELSE IF PrintRaises(Category(redaction))
               THEN /\ e_doc' = [e_doc EXCEPT ![n].annots =
                                    Append(@, Annot(InternalRect(redaction, page), "call"))]
                    /\ e_ret' = "False"
                    /\ e_pc' = "r_returned"
                    /\ UNCHANGED e_job
               ELSE /\ e_doc' = [e_doc EXCEPT ![n].annots =
                                    Append(@, Annot(InternalRect(redaction, page), "call"))]
                    /\ e_job' = [Advance(e_job) EXCEPT !.calls = @ + 1]
                    /\ UNCHANGED <<e_ret, e_pc>>
    /\ UNCHANGED <<e_in, e_out, e_resp, e_tmp, xvars, dvars, yvars, gvars, avars>>

\* page.apply_redactions on a page: the content under every redaction
\* annotation of the page is removed and the annotations are consumed
ApplyRedactions(page) ==
    [page EXCEPT !.removed = @ \cup { page.annots[k].rect : k \in 1..Len(page.annots) },
                 !.annots = <<>>]

\* mutant: only pages that had a group of rectangles are applied
RApplyPageSkipsLast(doc, n) ==
    IF n = Len(doc) THEN doc[n] ELSE ApplyRedactions(doc[n])

\* the apply pass on page n of the document
RApplyPage(doc, n) == ApplyRedactions(doc[n])

\* one pass of the loop of lines 133-141
RApply ==
    /\ e_pc = "r_apply"
    /\ IF e_job.pi > PageCount(e_doc)
       THEN /\ e_pc' = "r_save"
            /\ UNCHANGED <<e_doc, e_job, e_ret>>
       ELSE IF e_in.fault = Fault("apply", e_job.pi)
       THEN /\ e_ret' = "False"
            /\ e_pc' = "r_returned"
            /\ UNCHANGED <<e_doc, e_job>>
       ELSE /\ e_doc' = [e_doc EXCEPT ![e_job.pi] = RApplyPage(e_doc, e_job.pi)]
            /\ e_job' = [e_job EXCEPT !.pi = @ + 1, !.applied[e_job.pi] = @ + 1]
            /\ UNCHANGED <<e_ret, e_pc>>
    /\ UNCHANGED <<e_in, e_out, e_resp, e_tmp, xvars, dvars, yvars, gvars, avars>>

\* what a save that raised part-way leaves at output_path: a file holding a
\* prefix of the document, with no readable page
PartialFile == Bytes(<<>>, TRUE)

\* doc.save(output_path, ...), doc.close(), return True. A save that raises
\* does so before the file is created or while it is being written; the
\* except block of redact_pdf does not remove output_path
RSave ==
    /\ e_pc = "r_save"
    /\ IF e_in.fault.step = "save"
       THEN /\ e_ret' = "False"
            /\ e_out' \in {NoBytes, PartialFile}
       ELSE /\ e_out' = Bytes(e_doc, TRUE)
            /\ e_ret' = "True"
    /\ e_pc' = "r_returned"
    /\ UNCHANGED <<e_in, e_doc, e_job, e_resp, e_tmp, xvars, dvars, yvars, gvars, avars>>

-----------------------------------------------------------------------------
(* redact_signatures_from_bytes (redactor.py) *)

\* fitz.open(stream=pdf_bytes); an exception leaves the function
COpen ==
    /\ e_pc = "c_open"
    /\ IF e_in.fault.step = "open"
       THEN /\ e_ret' = "raised"
            /\ e_pc' = "c_returned"
            /\ UNCHANGED e_doc
       ELSE /\ e_doc' = e_in.doc
            /\ e_pc' = "c_group"
            /\ UNCHANGED e_ret
    /\ UNCHANGED <<e_in, e_job, e_out, e_resp, e_tmp, xvars, dvars, yvars, gvars, avars>>

\* the grouping loop of lines 190-195
CGroup ==
    /\ e_pc = "c_group"
    /\ LET g == GroupByPage(e_job.sigs)
       IN  IF ~g.ok
           THEN /\ e_ret' = "raised"
                /\ e_pc' = "c_returned"
                /\ UNCHANGED e_job
           ELSE /\ e_job' = [e_job EXCEPT !.groups = g.groups, !.gi = 1, !.ri = 1]
                /\ e_pc' = "c_cover"
                /\ UNCHANGED e_ret
    /\ UNCHANGED <<e_in, e_doc, e_out, e_resp, e_tmp, xvars, dvars, yvars, gvars, avars>>

\* mutant: the cover engine applies the size check of redact_pdf
CoverSkipsOversized(sig, page) == Oversized(sig, page)

\* whether the cover engine skips a rectangle of an in-range page: never
CoverSkips(sig, page) == FALSE

\* mutant: the rectangle is registered as a removal region
CoverDrawAsRedaction(page, internal_rect) ==
    [page EXCEPT !.annots = Append(@, Annot(internal_rect, "call"))]

\* page.new_shape(), draw_rect, finish(fill=(1, 1, 1)), commit: one filled
\* rectangle more on the page
CoverDraw(page, internal_rect) ==
    [page EXCEPT !.shapes = Append(@, internal_rect)]

\* one pass of the loops of lines 198-231: new_shape, draw_rect, finish,
\* commit draw one white rectangle over the page content, and the
\* confidence of the rectangle is printed as a percentage
CCover ==
    /\ e_pc = "c_cover"
    /\ IF e_job.gi > Len(e_job.groups)
       THEN /\ e_pc' = "c_save"
            /\ UNCHANGED <<e_doc, e_job, e_ret>>
       ELSE
       LET group == e_job.groups[e_job.gi]
       IN  IF PageOutOfRange(group.page_idx, e_doc)
           THEN /\ e_job' = SkipGroup(e_job)
                /\ UNCHANGED <<e_doc, e_ret, e_pc>>
           ELSE
           LET n == PageNo(e_doc, group.page_idx)
               page == e_doc[n]
               sig == group.items[e_job.ri]
           IN  IF ~(RectKeys \subseteq DOMAIN sig)
               THEN /\ e_ret' = "raised"
                    /\ e_pc' = "c_returned"
                    /\ UNCHANGED <<e_doc, e_job>>
               ELSE IF CoverSkips(sig, page)
               THEN /\ e_job' = Advance(e_job)
                    /\ UNCHANGED <<e_doc, e_ret, e_pc>>
               ELSE IF e_in.fault = Fault("annot", e_job.calls + 1)
               THEN /\ e_ret' = "raised"
                    /\ e_pc' = "c_returned"
                    /\ UNCHANGED <<e_doc, e_job>>
               ELSE IF FormatRaises(Confidence(sig))
               THEN /\ e_doc' = [e_doc EXCEPT ![n] =
                                    CoverDraw(@, InternalRect(sig, page))]
                    /\ e_ret' = "raised"
                    /\ e_pc' = "c_returned"
                    /\ UNCHANGED e_job
               ELSE /\ e_doc' = [e_doc EXCEPT ![n] =
                                    CoverDraw(@, InternalRect(sig, page))]
                    /\ e_job' = [Advance(e_job) EXCEPT !.calls = @ + 1]
                    /\ UNCHANGED <<e_ret, e_pc>>
    /\ UNCHANGED <<e_in, e_out, e_resp, e_tmp, xvars, dvars, yvars, gvars, avars>>

\* doc.save(output_buffer, ...), doc.close(), return output_buffer.getvalue()
CSave ==
    /\ e_pc = "c_save"
    /\ IF e_in.fault.step = "save"
       THEN /\ e_ret' = "raised"
            /\ UNCHANGED e_out
       ELSE /\ e_out' = Bytes(e_doc, TRUE)
            /\ e_ret' = "bytes"
    /\ e_pc' = "c_returned"
    /\ UNCHANGED <<e_in, e_doc, e_job, e_resp, e_tmp, xvars, dvars, yvars, gvars, avars>>

-----------------------------------------------------------------------------
(* POST /redact (main.py) *)

\* RedactionCoordinate(**r): the five required fields within their ranges
ValidCoordinate(r) ==
    /\ (RectKeys \cup {"pageIndex"}) \subseteq DOMAIN r
    /\ r.pageIndex >= 0
    /\ r.x >= 0
    /\ r.y >= 0
    /\ r.width > 0
    /\ r.height > 0
    /\ \A k \in {"text", "category"} \cap DOMAIN r : r[k] # LoneSurrogate

\* the finally block: temp_input and temp_redactions are unlinked if set
FinallyUnlink(tmp) ==
    [tmp EXCEPT !.input = IF @ = "file" THEN "deleted" ELSE @,
                !.redactions = IF @ = "file" THEN "deleted" ELSE @]

\* the handler up to the call of redact_pdf: validation of the upload and of
\* the payload, the empty-list shortcut, the temporary files
EpRedact ==
    /\ e_pc = "ep_redact"
    /\ IF e_in.fault = BadFile
       THEN /\ e_resp' = Resp(400, NoBytes, {})
            /\ e_pc' = "responded"
            /\ UNCHANGED e_tmp
       ELSE IF e_in.payload.kind # "list"
       THEN /\ e_resp' = Resp(400, NoBytes, {})
            /\ e_pc' = "responded"
            /\ UNCHANGED e_tmp
       ELSE IF Len(e_in.payload.items) = 0
       THEN /\ e_tmp' = [e_tmp EXCEPT !.output = "file", !.scheduled = {"output"}]
            /\ e_resp' = Resp(200, Bytes(e_in.doc, FALSE),
                              { <<"X-Redactions-Applied", "0">> })
            /\ e_pc' = "responded"
       ELSE IF \E i \in 1..Len(e_in.payload.items) :
                   ~ValidCoordinate(e_in.payload.items[i])
       THEN /\ e_resp' = Resp(400, NoBytes, {})
            /\ e_pc' = "responded"
            /\ UNCHANGED e_tmp
       ELSE /\ e_tmp' = [e_tmp EXCEPT !.input = "file", !.redactions = "file",
                                      !.output = "file"]
            /\ e_pc' = "r_open"
            /\ UNCHANGED e_resp
    /\ UNCHANGED <<e_in, e_doc, e_job, e_out, e_ret, xvars, dvars, yvars, gvars, avars>>

\* the handler after redact_pdf returned: the result check, the response,
\* the finally block
EpRedactFinish ==
    /\ e_pc = "r_returned"
    /\ e_in.entry = "ep_redact"
    /\ IF e_ret # "True"
       THEN /\ e_resp' = Resp(500, NoBytes, {})
            /\ e_tmp' = FinallyUnlink(e_tmp)
       ELSE IF ~e_out.present
       THEN /\ e_resp' = Resp(500, NoBytes, {})
            /\ e_tmp' = FinallyUnlink(e_tmp)
       ELSE /\ e_resp' = Resp(200, e_out, {})
            /\ e_tmp' = [FinallyUnlink(e_tmp) EXCEPT !.scheduled = {"output"}]
    /\ e_pc' = "responded"
    /\ UNCHANGED <<e_in, e_doc, e_job, e_out, e_ret, xvars, dvars, yvars, gvars, avars>>

\* cleanup_file(temp_output), run as a background task after the response
BackgroundCleanup ==
    /\ e_pc = "responded"
    /\ "output" \in e_tmp.scheduled
    /\ e_tmp' = [e_tmp EXCEPT !.output = IF @ = "file" THEN "deleted" ELSE @,
                              !.scheduled = {}]
    /\ UNCHANGED <<e_in, e_pc, e_doc, e_job, e_out, e_ret, e_resp, xvars, dvars, yvars, gvars, avars>>

-----------------------------------------------------------------------------
(* POST /detect-and-redact-signatures (main.py) *)

\* mutant: only the detections of the call are handed on
AllSignaturesDetectedOnly(existing, detected_signatures) == detected_signatures

\* all_signatures = existing + detected_signatures
AllSignatures(existing, detected_signatures) == existing \o detected_signatures

\* the handler up to the call of redact_signatures_from_bytes: a payload
\* that is not JSON counts as []; existing + detected_signatures raises when
\* the payload is JSON but no array
EpDetectRedact ==
    /\ e_pc = "ep_detect"
    /\ IF e_in.fault = NoYolo
       THEN /\ e_resp' = Resp(503, NoBytes, {})
            /\ e_pc' = "responded"
            /\ UNCHANGED e_job
       ELSE IF e_in.fault = BadFile
       THEN /\ e_resp' = Resp(400, NoBytes, {})
            /\ e_pc' = "responded"
            /\ UNCHANGED e_job
       ELSE IF e_in.payload.kind = "notlist"
       THEN /\ e_resp' = Resp(500, NoBytes, {})
            /\ e_pc' = "responded"
            /\ UNCHANGED e_job
       ELSE
       LET existing == e_in.payload.items
           detected_signatures == e_in.detected
           all_signatures == AllSignatures(existing, detected_signatures)
       IN  IF Len(all_signatures) = 0
           THEN /\ e_resp' = Resp(200, Bytes(e_in.doc, FALSE),
                                  { <<"X-Signatures-Detected", 0>>,
                                    <<"X-Signatures-Redacted", 0>> })
                /\ e_pc' = "responded"
                /\ UNCHANGED e_job
           ELSE /\ e_job' = Job(all_signatures)
                /\ e_pc' = "c_open"
                /\ UNCHANGED e_resp
    /\ UNCHANGED <<e_in, e_doc, e_out, e_ret, e_tmp, xvars, dvars, yvars, gvars, avars>>

\* the handler after redact_signatures_from_bytes returned or raised
EpDetectRedactFinish ==
    /\ e_pc = "c_returned"
    /\ e_in.entry = "ep_detect"
    /\ IF e_ret # "bytes"
       THEN e_resp' = Resp(500, NoBytes, {})
       ELSE e_resp' = Resp(200, e_out,
                           { <<"X-Signatures-Detected", Len(e_in.detected)>>,
                             <<"X-Signatures-Redacted", Len(e_job.sigs)>> })
    /\ e_pc' = "responded"
    /\ UNCHANGED <<e_in, e_doc, e_job, e_out, e_ret, e_tmp, xvars, dvars, yvars, gvars, avars>>

-----------------------------------------------------------------------------
(* Specification Spec: one request or one direct call of an engine *)

\* the uploaded document together with the library failure of the run
DocAndFault(extra) ==
    { <<DocPlain, f>> : f \in Faults \cup extra } \cup { <<DocMarked, NoFault>> }

Call(entry, df, payload, detected) ==
    [entry |-> entry, doc |-> df[1], fault |-> df[2], payload |-> payload,
     detected |-> detected]

\* the payloads a direct call of redact_signatures_from_bytes can be given
ListPayloads == { q \in Payloads : q.kind = "list" }

InitEngine(in) ==
    /\ e_in = in
    /\ e_pc = CASE in.entry = "redact_pdf" -> "r_open"
                [] in.entry = "cover" -> "c_open"
                [] in.entry = "ep_redact" -> "ep_redact"
                [] in.entry = "ep_detect" -> "ep_detect"
    /\ e_doc = <<>>
    /\ e_job = IF in.entry = "cover" THEN Job(in.payload.items) ELSE NoJob
    /\ e_out = NoBytes
    /\ e_ret = "none"
    /\ e_resp = NoResp
    /\ e_tmp = NoTmp

Init ==
    /\ \/ \E df \in DocAndFault({}), pl \in Payloads :
             InitEngine(Call("redact_pdf", df, pl, <<>>))
       \/ \E df \in DocAndFault({}), pl \in ListPayloads :
             InitEngine(Call("cover", df, pl, <<>>))
       \/ \E df \in DocAndFault({BadFile}), pl \in Payloads :
             InitEngine(Call("ep_redact", df, pl, <<>>))
       \/ \E df \in DocAndFault({BadFile, NoYolo}), pl \in Payloads :
             \E det \in SeqsUpTo(DetItems, MaxRects - Len(pl.items)) :
                InitEngine(Call("ep_detect", df, pl, det))
    /\ IdleXform
    /\ IdleDedup
    /\ IdleDetect
    /\ IdleModel
    /\ IdleAuth

Next ==
    \/ ROpen \/ RLoad \/ RAnnot \/ RApply \/ RSave
    \/ COpen \/ CGroup \/ CCover \/ CSave
    \/ EpRedact \/ EpRedactFinish \/ BackgroundCleanup
    \/ EpDetectRedact \/ EpDetectRedactFinish

Spec == Init /\ [][Next]_vars

-----------------------------------------------------------------------------
(* Claims about transform_rect_for_rotation, checked under SpecXform *)

\* the rectangle (x, y, w, h) as the fitz.Rect with those exact numbers
ExactXYWH(x, y, w, h) == Rect(x, y, x + w, y + h)

\* C1: transform_rect_for_rotation returns the rectangle itself when the
\* rotation is 0 or any value outside {90, 180, 270}, (H - y - h, x, h, w)
\* at 90, (W - x - w, H - y - h, w, h) at 180 and (W - y - h, x, h, w) at
\* 270; (100, 200, 150, 20) on a 612 x 792 page maps to itself at
\* rotation 0 and to (572, 100, 20, 150) at rotation 90.
C1_TransformTable ==
    t_pc = "done" =>
        LET x == t_in.x
            y == t_in.y
            w == t_in.w
            h == t_in.h
            W == t_in.mediabox.width
            H == t_in.mediabox.height
            r == t_in.rotation
        IN  /\ r = 90 => t_out = ExactXYWH(H - y - h, x, h, w)
            /\ r = 180 => t_out = ExactXYWH(W - x - w, H - y - h, w, h)
            /\ r = 270 => t_out = ExactXYWH(W - y - h, x, h, w)
            /\ r \notin {90, 180, 270} => t_out = ExactXYWH(x, y, w, h)
            /\ (t_in = XformInput(100, 200, 150, 20, 0, 612, 792))
                  => t_out = ExactXYWH(100, 200, 150, 20)
            /\ (t_in = XformInput(100, 200, 150, 20, 90, 612, 792))
                  => t_out = ExactXYWH(572, 100, 20, 150)

\* C1 witness: the worked example on the page rotated by 90 degrees
C1_Witness ==
    /\ t_pc = "done"
    /\ t_in = XformInput(100, 200, 150, 20, 90, 612, 792)
    /\ t_out = Rect(572, 100, 592, 250)

\* The page rotation of a PDF viewer, internal space to displayed space: the
\* internal page is turned clockwise by the rotation, so an internal point
\* (xi, yi) is shown at (H - yi, xi) for 90, (W - xi, H - yi) for 180 and
\* (yi, W - xi) for 270.
PageRotationToDisplayed(rect, rotation, mediabox) ==
    LET W == mediabox.width
        H == mediabox.height
    IN  IF rotation = 90 THEN Rect(H - rect.y1, rect.x0, H - rect.y0, rect.x1)
        ELSE IF rotation = 180
        THEN Rect(W - rect.x1, H - rect.y1, W - rect.x0, H - rect.y0)
        ELSE IF rotation = 270
        THEN Rect(rect.y0, W - rect.x1, rect.y1, W - rect.x0)
        ELSE rect

\* the input rectangle lies inside the displayed page
InsideDisplayed(i) ==
    /\ i.x >= 0
    /\ i.y >= 0
    /\ i.x + i.w <= DisplayedWidth(i.rotation, i.mediabox)
    /\ i.y + i.h <= DisplayedHeight(i.rotation, i.mediabox)

\* C2: for every rotation in {0, 90, 180, 270} and every rectangle inside
\* the displayed page, transforming to internal space and then applying the
\* page rotation back to displayed space recovers the original rectangle.
C2_RoundTrip ==
    (/\ t_pc = "done"
     /\ t_in.rotation \in {0, 90, 180, 270}
     /\ InsideDisplayed(t_in))
    => PageRotationToDisplayed(t_out, t_in.rotation, t_in.mediabox)
         = ExactXYWH(t_in.x, t_in.y, t_in.w, t_in.h)

\* C23: for every rotation in {0, 90, 180, 270} and every page size, a
\* rectangle inside the displayed page is transformed into a rectangle
\* inside the internal page: new_x >= 0, new_y >= 0, new_x + new_w <=
\* internal width and new_y + new_h <= internal height.
C23_TransformStaysInsidePage ==
    (/\ t_pc = "done"
     /\ t_in.rotation \in {0, 90, 180, 270}
     /\ InsideDisplayed(t_in))
    => /\ t_out.x0 >= 0
       /\ t_out.y0 >= 0
       /\ t_out.x1 <= t_in.mediabox.width
       /\ t_out.y1 <= t_in.mediabox.height

-----------------------------------------------------------------------------
(* Claims about _calculate_iou and _is_duplicate, checked under SpecIoU *)

\* the two boxes share no area: apart, or touching along an edge or corner
NoSharedArea(a, b) ==
    \/ a.x + a.width <= b.x
    \/ b.x + b.width <= a.x
    \/ a.y + a.height <= b.y
    \/ b.y + b.height <= a.y

\* C9: for all rectangles A and B with positive width and height,
\* _calculate_iou(A, B) = _calculate_iou(B, A), _calculate_iou(A, A) = 1,
\* and _calculate_iou(A, B) is exactly 0 whenever A and B are disjoint or
\* touch only along an edge or at a corner.
C9_IouLaws ==
    (d_pc = "done" /\ d_in.op = "iou") =>
        /\ d_out.ab = d_out.ba
        /\ d_out.aa = FOne
        /\ NoSharedArea(d_in.box1, d_in.box2) => d_out.ab = FZero

\* C10: _is_duplicate returns true if and only if some rectangle of the
\* existing set or of the already-detected set has the candidate's pageIndex
\* and an IoU with it strictly greater than the threshold; an IoU equal to
\* the threshold, or any rectangle of another page, makes no duplicate.
C10_DuplicateIff ==
    (d_pc = "done" /\ d_in.op = "dup") =>
        LET all == d_in.existing \o d_in.detected
            Same(i) == /\ "pageIndex" \in DOMAIN all[i]
                       /\ all[i].pageIndex = d_in.new_sig.pageIndex
            iou(i) == CalculateIou(d_in.new_sig, all[i])
        IN  /\ d_out = (\E i \in 1..Len(all) :
                            Same(i) /\ FGt(iou(i), d_in.threshold))
            /\ (\A i \in 1..Len(all) :
                    Same(i) => ~FGt(iou(i), d_in.threshold)) => d_out = FALSE

\* C10 witness: the candidate meets its own geometry on the other page and,
\* on its own page, a box whose IoU with it is exactly the threshold 0.5;
\* it is no duplicate.
C10_Witness ==
    /\ d_pc = "done"
    /\ d_in.op = "dup"
    /\ d_in.new_sig = Box(0, 0, 0, 2, 1)
    /\ d_in.existing = <<Box(1, 0, 0, 2, 1)>>
    /\ d_in.detected = <<Box(0, 0, 0, 1, 1)>>
    /\ d_in.threshold = FHalf
    /\ CalculateIou(d_in.new_sig, d_in.detected[1]) = FHalf
    /\ d_out = FALSE

-----------------------------------------------------------------------------
(* Claims about the redaction and cover engines, checked under Spec *)

RedactRun == e_in.entry \in {"redact_pdf", "ep_redact"}
CoverRun == e_in.entry \in {"cover", "ep_detect"}

\* the rectangles handed to the engine of this run
EngineItems == IF RedactRun THEN e_in.payload.items ELSE e_job.sigs

\* an entry with pageIndex, x, y, width and height
WellFormed(it) == (RectKeys \cup {"pageIndex"}) \subseteq DOMAIN it

\* a well-formed entry whose page index is below the page count and that
\* addresses page n of the document (a negative index counts from the end)
Addresses(it, n) ==
    /\ WellFormed(it)
    /\ it.pageIndex < Len(e_in.doc)
    /\ PageNo(e_in.doc, it.pageIndex) = n

\* a well-formed entry whose pageIndex is one of 0 .. page count - 1
InRange(it) ==
    /\ WellFormed(it)
    /\ it.pageIndex >= 0
    /\ it.pageIndex < Len(e_in.doc)

\* wider than 50% of the displayed page width or taller than 50% of the
\* displayed page height
TooLarge(it, page) ==
    LET turned == page.rotation \in {90, 270}
        shownW == IF turned THEN page.mediabox.height ELSE page.mediabox.width
        shownH == IF turned THEN page.mediabox.width ELSE page.mediabox.height
    IN  2 * it.width > shownW \/ 2 * it.height > shownH

\* the regions this call registered on page n and the regions removed on it
\* beyond those the uploaded file had marked itself
CallRegions(n) ==
    { e_doc[n].annots[k].rect :
        k \in { j \in 1..Len(e_doc[n].annots) : e_doc[n].annots[j].by = "call" } }
    \cup (e_doc[n].removed
            \ { e_in.doc[n].annots[k].rect : k \in 1..Len(e_in.doc[n].annots) })

ShapeSet(page) == { page.shapes[k] : k \in 1..Len(page.shapes) }

\* the run meets no failure: a payload that is an array of well-formed
\* entries whose category (redact_pdf) or confidence (cover engine) can be
\* printed, and a library that never raises
CleanRun ==
    /\ e_in.fault = NoFault
    /\ e_in.payload.kind = "list"
    /\ \A i \in 1..Len(EngineItems) : WellFormed(EngineItems[i])
    /\ RedactRun => \A i \in 1..Len(EngineItems) :
                        ~PrintRaises(Category(EngineItems[i]))
    /\ CoverRun => \A i \in 1..Len(EngineItems) :
                       ~FormatRaises(Confidence(EngineItems[i]))

\* C3: in redact_pdf a rectangle wider than 50% of the displayed page width
\* or taller than 50% of the displayed page height is never registered as a
\* removal region; it is skipped, the other rectangles are still processed
\* and the job returns true; a rectangle at exactly 50% is registered.
C3_OversizedSkipped ==
    RedactRun =>
        /\ \A n \in 1..Len(e_doc) : \A r \in CallRegions(n) :
              \E i \in 1..Len(EngineItems) :
                  /\ Addresses(EngineItems[i], n)
                  /\ ~TooLarge(EngineItems[i], e_in.doc[n])
                  /\ r = InternalRect(EngineItems[i], e_in.doc[n])
        /\ (e_ret # "none" /\ CleanRun) =>
              /\ e_ret = "True"
              /\ \A i \in 1..Len(EngineItems) : \A n \in 1..Len(e_in.doc) :
                    (Addresses(EngineItems[i], n)
                       /\ ~TooLarge(EngineItems[i], e_in.doc[n]))
                    => InternalRect(EngineItems[i], e_in.doc[n])
                          \in e_out.pages[n].removed

\* C3 witness: page 0 is given a rectangle of exactly half the page and one
\* wider than half; the job returned true with the first region removed and
\* no region for the second
C3_Witness ==
    /\ e_in.entry = "redact_pdf"
    /\ e_in.doc = DocPlain
    /\ e_in.payload.items = << Box(0, 1, 2, 3, 1), Box(0, 1, 2, 2, 3) >>
    /\ e_ret = "True"
    /\ e_out.pages[1].removed = { Rect(1, 2, 3, 5) }

\* C4: redact_signatures_from_bytes applies no size bound: every rectangle
\* whose page index is in range is covered by a shape at exactly its
\* transformed coordinates, however large it is.
C4_CoverHasNoSizeBound ==
    (CoverRun /\ e_ret = "bytes") =>
        \A i \in 1..Len(EngineItems) :
            InRange(EngineItems[i]) =>
                LET n == EngineItems[i].pageIndex + 1
                IN  InternalRect(EngineItems[i], e_in.doc[n])
                        \in ShapeSet(e_out.pages[n])

\* C4 witness: a rectangle taller than half of page 0, which redact_pdf
\* skips, is covered at its own coordinates
C4_Witness ==
    /\ e_in.entry = "cover"
    /\ e_in.payload.items = << Box(0, 1, 2, 1, 4) >>
    /\ TooLarge(e_in.payload.items[1], e_in.doc[1])
    /\ e_ret = "bytes"
    /\ e_out.pages[1].shapes = << Rect(1, 2, 2, 6) >>

\* C5: in both engines a rectangle whose pageIndex is not less than the page
\* count is skipped without raising: no region or shape is created for it,
\* every rectangle of an in-range page is still processed, and the call
\* completes successfully.
C5_OutOfRangeSkipped ==
    /\ \A n \in 1..Len(e_doc) :
          \A r \in CallRegions(n) \cup ShapeSet(e_doc[n]) :
              \E i \in 1..Len(EngineItems) :
                  /\ Addresses(EngineItems[i], n)
                  /\ r = InternalRect(EngineItems[i], e_in.doc[n])
    /\ (e_ret # "none" /\ CleanRun) =>
          /\ e_ret = IF RedactRun THEN "True" ELSE "bytes"
          /\ \A i \in 1..Len(EngineItems) :
                InRange(EngineItems[i]) =>
                    LET n == EngineItems[i].pageIndex + 1
                        r == InternalRect(EngineItems[i], e_in.doc[n])
                    IN  IF RedactRun
                        THEN TooLarge(EngineItems[i], e_in.doc[n])
                                \/ r \in e_out.pages[n].removed
                        ELSE r \in ShapeSet(e_out.pages[n])

\* C5 witness: a rectangle for a page after the last one, then one for
\* page 0; redact_pdf returned true and removed only the second
C5_Witness ==
    /\ e_in.entry = "redact_pdf"
    /\ e_in.doc = DocPlain
    /\ e_in.payload.items = << Box(2, 1, 2, 1, 1), Box(0, 1, 2, 1, 1) >>
    /\ e_ret = "True"
    /\ e_out.pages[1].removed = { Rect(1, 2, 2, 3) }
    /\ e_out.pages[2].removed = {}

\* the rectangles of the run that reach the library call of their engine
Reaching ==
    { i \in 1..Len(EngineItems) :
        \E n \in 1..Len(e_in.doc) :
            /\ Addresses(EngineItems[i], n)
            /\ (RedactRun => ~TooLarge(EngineItems[i], e_in.doc[n])) }

\* some step of the run fails: the open, the parse of the rectangles (no
\* array, an entry without pageIndex, an entry of an existing page without
\* a coordinate), a registration or drawing, a print, the apply pass, the save
StepFails ==
    \/ e_in.fault.step \in {"open", "save"}
    \/ RedactRun /\ e_in.fault.step = "apply"
    \/ RedactRun /\ e_in.payload.kind # "list"
    \/ \E i \in 1..Len(EngineItems) :
          \/ "pageIndex" \notin DOMAIN EngineItems[i]
          \/ /\ EngineItems[i].pageIndex < Len(e_in.doc)
             /\ ~WellFormed(EngineItems[i])
    \/ e_in.fault.step = "annot" /\ e_in.fault.at <= Cardinality(Reaching)
    \/ /\ RedactRun
       /\ \E i \in 1..Len(EngineItems) : \E n \in 1..Len(e_in.doc) :
              /\ Addresses(EngineItems[i], n)
              /\ PrintRaises(Category(EngineItems[i]))
    \/ /\ CoverRun
       /\ \E i \in 1..Len(EngineItems) : \E n \in 1..Len(e_in.doc) :
              /\ Addresses(EngineItems[i], n)
              /\ FormatRaises(Confidence(EngineItems[i]))

\* C6: a failure while opening, parsing the rectangles, annotating, applying
\* or saving is caught and surfaced as a result (redact_pdf returns false,
\* raises nothing), and then no output document is produced: the output is
\* written only when every earlier step of the call succeeded.
C6_FailureLeavesNoOutput ==
    /\ (RedactRun /\ e_ret # "none") =>
          /\ e_ret \in {"True", "False"}
          /\ StepFails => (e_ret = "False" /\ ~e_out.present)
    /\ (CoverRun /\ e_ret # "none") =>
          (StepFails => (e_ret = "raised" /\ ~e_out.present))
    /\ e_out.present => (~StepFails /\ e_ret \in {"True", "bytes"})

\* C7: whenever redact_pdf returns true, every rectangle it accepted (page
\* index in range, not oversized) has had its region removed in the
\* document written, and no registered region is left unapplied.
C7_AcceptedAllRemoved ==
    (RedactRun /\ e_ret = "True") =>
        /\ \A i \in 1..Len(EngineItems) :
              InRange(EngineItems[i]) =>
                  LET n == EngineItems[i].pageIndex + 1
                  IN  TooLarge(EngineItems[i], e_in.doc[n])
                      \/ InternalRect(EngineItems[i], e_in.doc[n])
                            \in e_out.pages[n].removed
        /\ \A n \in 1..Len(e_out.pages) : e_out.pages[n].annots = <<>>

\* C7 witness: one accepted rectangle on each of the two pages, the second
\* page shown rotated by 90; redact_pdf returned true with both removed
C7_Witness ==
    /\ e_in.entry = "redact_pdf"
    /\ e_in.doc = DocPlain
    /\ e_in.payload.items = << Box(0, 1, 2, 1, 1), Box(1, 1, 2, 1, 1) >>
    /\ e_ret = "True"
    /\ e_out.pages[1].removed = { Rect(1, 2, 2, 3) }
    /\ e_out.pages[2].removed = { Rect(3, 1, 4, 2) }

\* a document with the content of the upload: nothing removed, nothing drawn
SameContent(out) ==
    /\ out.present
    /\ Len(out.pages) = Len(e_in.doc)
    /\ \A n \in 1..Len(e_in.doc) :
          /\ out.pages[n].removed = e_in.doc[n].removed
          /\ out.pages[n].shapes = e_in.doc[n].shapes

\* C8: redacting with an empty rectangle list is a pass-through: /redact
\* returns the uploaded bytes with X-Redactions-Applied 0, redact_pdf and
\* redact_signatures_from_bytes remove and draw nothing, and
\* /detect-and-redact-signatures returns the uploaded bytes when there are
\* no existing and no detected rectangles.
C8_EmptyListPassThrough ==
    /\ (e_in.entry = "ep_redact" /\ e_pc = "responded"
          /\ e_in.payload = Payload("list", <<>>) /\ e_in.fault # BadFile) =>
          /\ e_resp.status = 200
          /\ e_resp.body = Bytes(e_in.doc, FALSE)
          /\ <<"X-Redactions-Applied", "0">> \in e_resp.headers
    /\ (e_in.entry \in {"redact_pdf", "cover"}
          /\ e_in.payload = Payload("list", <<>>)
          /\ e_ret \in {"True", "bytes"}) =>
          SameContent(e_out)
    /\ (e_in.entry = "ep_detect" /\ e_pc = "responded"
          /\ e_in.payload.kind # "notlist" /\ e_in.payload.items = <<>>
          /\ e_in.detected = <<>> /\ e_in.fault \notin {BadFile, NoYolo}) =>
          /\ e_resp.status = 200
          /\ e_resp.body = Bytes(e_in.doc, FALSE)

-----------------------------------------------------------------------------
(* detect_signatures_yolo and its callers (signature_detector_yolo.py,     *)
(* main.py).  Lengths are counted in grid steps of 2^-GridBits point.      *)

\* n points (or n pixels of the rendered image) in grid steps
Units(n) == n * Pow2(GridBits)

\* DEFAULT_CONFIDENCE = 0.25; scores and thresholds are counted in percent
DEFAULT_CONFIDENCE == 25
\* zoom: float = 2.0
Zoom == 2

\* one entry of results["scores"], results["boxes"]: a score and a box in
\* image pixels
RawBox(score, x1, y1, x2, y2) ==
    [score |-> score, x1_img |-> Units(x1), y1_img |-> Units(y1),
     x2_img |-> Units(x2), y2_img |-> Units(y2)]

\* the signature record of lines 194-203
Signature(page_num, x1, y1, width, height, conf) ==
    [pageIndex |-> page_num, x |-> x1, y |-> y1, width |-> width,
     height |-> height, text |-> "Signature (YOLOS)", category |-> "Signature",
     confidence |-> conf]

\* mutant: the width is clipped against the page without regard to x
ClipAgainstPage(x1, width, page_width) ==
    IF width > page_width THEN page_width ELSE width

\* lines 188-191: if x1 + width > page_rect.width: width = page_rect.width - x1
Clip(x1, width, page_width) ==
    IF FAdd(x1, width) > page_width THEN FSub(page_width, x1) ELSE width

\* mutant: the padding moves the left or upper edge inwards
PadLowInwards(x1, padding) == Max(0, FAdd(x1, padding))

\* lines 181-182: x1 = max(0, x1 - padding_x)
PadLow(x1, padding) == Max(0, FSub(x1, padding))

\* lines 165-203: scale to points, pad by 5%, clip, build the record
PostProcess(box, page_num, page) ==
    LET x1 == FlQuot(box.x1_img, Zoom)
        y1 == FlQuot(box.y1_img, Zoom)
        x2 == FlQuot(box.x2_img, Zoom)
        y2 == FlQuot(box.y2_img, Zoom)
        width == FSub(x2, x1)
        height == FSub(y2, y1)
        padding_x == FMulPad(width)
        padding_y == FMulPad(height)
        px1 == PadLow(x1, padding_x)
        py1 == PadLow(y1, padding_y)
        pwidth == FAdd(width, FMul(2, padding_x))
        pheight == FAdd(height, FMul(2, padding_y))
    IN  Signature(page_num, px1, py1,
                  Clip(px1, pwidth, DisplayedWidth(page.rotation, page.mediabox)),
                  Clip(py1, pheight, DisplayedHeight(page.rotation, page.mediabox)),
                  box.score)

\* _processor.post_process_object_detection(outputs, threshold=...): the
\* candidates whose score is above the threshold, in the model's order
RECURSIVE PostProcessObjectDetection(_, _)
PostProcessObjectDetection(raw, threshold) ==
    IF raw = <<>> THEN <<>>
    ELSE IF raw[1].score > threshold
    THEN <<raw[1]>> \o PostProcessObjectDetection(Tail(raw), threshold)
    ELSE PostProcessObjectDetection(Tail(raw), threshold)

\* whether _is_duplicate raises before it returns: existing + detected when
\* the payload was JSON but no array (an object with a key, say), or an entry
\* of the same page that lacks a coordinate, reached before a duplicate is
\* found
RECURSIVE ScanRaises(_, _, _, _, _)
ScanRaises(new_sig, kind, all_existing, i, overlap_threshold) ==
    IF kind = "notlist" THEN TRUE
    ELSE IF i > Len(all_existing) THEN FALSE
    ELSE IF PageIndexDiffers(all_existing[i], new_sig)
    THEN ScanRaises(new_sig, kind, all_existing, i + 1, overlap_threshold)
    ELSE IF ~(RectKeys \subseteq DOMAIN all_existing[i]) THEN TRUE
    ELSE IF FGt(CalculateIou(new_sig, all_existing[i]), overlap_threshold)
    THEN FALSE
    ELSE ScanRaises(new_sig, kind, all_existing, i + 1, overlap_threshold)

\* the confidence a caller supplies, or none
NoConf == [given |-> FALSE, value |-> 0]
Conf(v) == [given |-> TRUE, value |-> v]

\* locals of detect_signatures_yolo
DetectJob(existing, conf) ==
    [existing |-> existing, conf |-> conf, threshold |-> 0, opened |-> FALSE,
     page_num |-> 0, results |-> <<>>, k |-> 1]
NoDetectJob == DetectJob(Payload("list", <<>>), NoConf)

NoLast == [set |-> FALSE, page_num |-> 0, box |-> RawBox(0, 0, 0, 0, 0),
           sig |-> Signature(0, 0, 0, 0, 0, 0)]
Last(page_num, box, sig) ==
    [set |-> TRUE, page_num |-> page_num, box |-> box, sig |-> sig]

\* what a caller holds of a detection: a status (0: a plain return), the
\* detections, the rectangles handed on to the cover engine
NoDetectResp == [status |-> 0, signatures |-> <<>>, handed |-> <<>>]
DetectResp(status, signatures, handed) ==
    [status |-> status, signatures |-> signatures, handed |-> handed]

\* mutant: the except branch returns what was detected so far
OnDetectErrorPartial(detected_signatures) == detected_signatures

\* the except branch of detect_signatures_yolo: return []
OnDetectError(detected_signatures) == <<>>

\* mutant: a duplicate of higher confidence takes the place of the accepted
\* rectangle it overlaps
AppendOrReplaceWeaker(detected_signatures, signature, existing_signatures) ==
    LET weaker(i) ==
            /\ detected_signatures[i].pageIndex = signature.pageIndex
            /\ FGt(CalculateIou(signature, detected_signatures[i]), FHalf)
            /\ detected_signatures[i].confidence < signature.confidence
    IN  IF ~IsDuplicate(signature, existing_signatures, detected_signatures, FHalf)
        THEN Append(detected_signatures, signature)
        ELSE [i \in 1..Len(detected_signatures) |->
                 IF weaker(i) THEN signature ELSE detected_signatures[i]]

\* lines 205-211: if not _is_duplicate(signature, existing_signatures,
\* detected_signatures): detected_signatures.append(signature)
AppendUnlessDuplicate(detected_signatures, signature, existing_signatures) ==
    IF IsDuplicate(signature, existing_signatures, detected_signatures, FHalf)
    THEN detected_signatures
    ELSE Append(detected_signatures, signature)

NoRet == [returned |-> FALSE, value |-> <<>>]
Ret(value) == [returned |-> TRUE, value |-> value]

\* lines 116-125: the default threshold, _get_model(), the empty result when
\* the model is not available
DStart ==
    /\ y_pc = "d_start"
    /\ y_job' = [y_job EXCEPT !.threshold =
                    IF y_job.conf.given THEN y_job.conf.value
                    ELSE DEFAULT_CONFIDENCE]
    /\ IF y_in.fault = NoYolo
       THEN /\ y_ret' = Ret(<<>>)
            /\ y_pc' = "d_returned"
       ELSE /\ y_pc' = "d_open"
            /\ UNCHANGED y_ret
    /\ UNCHANGED <<y_in, y_det, y_last, y_resp, xvars, dvars, evars, gvars, avars>>

\* lines 127-132: import torch, fitz.open(stream=pdf_bytes)
DOpen ==
    /\ y_pc = "d_open"
    /\ IF y_in.fault.step = "open"
       THEN /\ y_ret' = Ret(OnDetectError(y_det))
            /\ y_pc' = "d_returned"
            /\ UNCHANGED y_job
       ELSE /\ y_job' = [y_job EXCEPT !.opened = TRUE, !.page_num = 0]
            /\ y_pc' = "d_page"
            /\ UNCHANGED y_ret
    /\ UNCHANGED <<y_in, y_det, y_last, y_resp, xvars, dvars, evars, gvars, avars>>

\* lines 134-161: the next page is rendered, the model run on the image and
\* its output filtered by the threshold
DPage ==
    /\ y_pc = "d_page"
    /\ IF y_job.page_num >= Len(y_in.doc)
       THEN /\ y_pc' = "d_close"
            /\ UNCHANGED <<y_job, y_ret>>
       ELSE IF y_in.fault \in { Fault("render", y_job.page_num + 1),
                                Fault("infer", y_job.page_num + 1) }
       THEN /\ y_ret' = Ret(OnDetectError(y_det))
            /\ y_pc' = "d_returned"
            /\ UNCHANGED y_job
       ELSE /\ y_job' = [y_job EXCEPT
                            !.results = PostProcessObjectDetection(
                                            y_in.raw[y_job.page_num + 1],
                                            y_job.threshold),
                            !.k = 1]
            /\ y_pc' = "d_box"
            /\ UNCHANGED y_ret
    /\ UNCHANGED <<y_in, y_det, y_last, y_resp, xvars, dvars, evars, gvars, avars>>

\* lines 164-211: one box of the page is post-processed and, unless it is a
\* duplicate, appended to detected_signatures
DBox ==
    /\ y_pc = "d_box"
    /\ IF y_job.k > Len(y_job.results)
       THEN /\ y_job' = [y_job EXCEPT !.page_num = @ + 1]
            /\ y_pc' = "d_page"
            /\ UNCHANGED <<y_det, y_last, y_ret>>
       ELSE IF y_in.fault = Fault("post", y_job.k)
       THEN /\ y_ret' = Ret(OnDetectError(y_det))
            /\ y_pc' = "d_returned"
            /\ UNCHANGED <<y_job, y_det, y_last>>
       ELSE
       LET box == y_job.results[y_job.k]
           signature == PostProcess(box, y_job.page_num,
                                    y_in.doc[y_job.page_num + 1])
           existing_signatures ==
               IF y_job.existing.kind = "list" THEN y_job.existing.items ELSE <<>>
       IN  /\ y_last' = Last(y_job.page_num, box, signature)
           /\ IF ScanRaises(signature, y_job.existing.kind,
                            existing_signatures \o y_det, 1, FHalf)
              THEN /\ y_ret' = Ret(OnDetectError(y_det))
                   /\ y_pc' = "d_returned"
                   /\ UNCHANGED <<y_job, y_det>>
              ELSE /\ y_det' = AppendUnlessDuplicate(y_det, signature,
                                                     existing_signatures)
                   /\ y_job' = [y_job EXCEPT !.k = @ + 1]
                   /\ UNCHANGED <<y_ret, y_pc>>
    /\ UNCHANGED <<y_in, y_resp, xvars, dvars, evars, gvars, avars>>

\* lines 213-220: doc.close(), return detected_signatures
DClose ==
    /\ y_pc = "d_close"
    /\ y_ret' = Ret(y_det)
    /\ y_pc' = "d_returned"
    /\ UNCHANGED <<y_in, y_job, y_det, y_last, y_resp, xvars, dvars, evars, gvars, avars>>

\* detect_all_signatures_yolo: the threshold it was given, or the default
DetectAll ==
    /\ y_pc = "all"
    /\ y_job' = [y_job EXCEPT !.conf =
                    IF @.given THEN @ ELSE Conf(DEFAULT_CONFIDENCE)]
    /\ y_pc' = "d_start"
    /\ UNCHANGED <<y_in, y_det, y_last, y_ret, y_resp, xvars, dvars, evars, gvars, avars>>

\* the text of existing_signatures as the two handlers parse it: text that
\* is no JSON counts as []
ParseExisting(payload) ==
    IF payload.kind = "badjson" THEN Payload("list", <<>>) ELSE payload

\* both signature handlers up to their call
\* detect_all_signatures_yolo(pdf_content, existing)
HandlerToDetection ==
    /\ IF y_in.fault = NoYolo
       THEN /\ y_resp' = DetectResp(503, <<>>, <<>>)
            /\ y_pc' = "responded"
            /\ UNCHANGED y_job
       ELSE IF y_in.fault = BadFile
       THEN /\ y_resp' = DetectResp(400, <<>>, <<>>)
            /\ y_pc' = "responded"
            /\ UNCHANGED y_job
       ELSE /\ y_job' = DetectJob(ParseExisting(y_in.payload), NoConf)
            /\ y_pc' = "all"
            /\ UNCHANGED y_resp
    /\ UNCHANGED <<y_in, y_det, y_last, y_ret, xvars, dvars, evars, gvars, avars>>

\* POST /detect-signatures up to the detection
EpDetectSignatures ==
    /\ y_pc = "ep_detect_signatures"
    /\ HandlerToDetection

\* POST /detect-signatures after the detection: the JSON answer
EpDetectSignaturesFinish ==
    /\ y_pc = "d_returned"
    /\ y_in.entry = "ep_detect_signatures"
    /\ y_resp' = DetectResp(200, y_ret.value, <<>>)
    /\ y_pc' = "responded"
    /\ UNCHANGED <<y_in, y_job, y_det, y_last, y_ret, xvars, dvars, evars, gvars, avars>>

\* POST /detect-and-redact-signatures up to the detection
EpDetectRedactDetect ==
    /\ y_pc = "ep_detect_redact"
    /\ HandlerToDetection

\* POST /detect-and-redact-signatures after the detection: existing +
\* detected_signatures, returned as is when empty, else handed to
\* redact_signatures_from_bytes
EpDetectRedactCombine ==
    /\ y_pc = "d_returned"
    /\ y_in.entry = "ep_detect_redact"
    /\ IF y_job.existing.kind = "notlist"
       THEN /\ y_resp' = DetectResp(500, y_ret.value, <<>>)
            /\ y_pc' = "responded"
       ELSE LET all_signatures == AllSignatures(y_job.existing.items, y_ret.value)
            IN  IF Len(all_signatures) = 0
                THEN /\ y_resp' = DetectResp(200, y_ret.value, <<>>)
                     /\ y_pc' = "responded"
                ELSE /\ y_resp' = DetectResp(0, y_ret.value, all_signatures)
                     /\ y_pc' = "cover"
    /\ UNCHANGED <<y_in, y_job, y_det, y_last, y_ret, xvars, dvars, evars, gvars, avars>>

-----------------------------------------------------------------------------
(* Specification SpecDetect: one detection call or one signature request *)

\* two pages shown 200 x 100 points, the second stored turned by 90
DetectDoc ==
    << Page(0, Units(200), Units(100), <<>>),
       Page(90, Units(100), Units(200), <<>>) >>

\* what the vision model reports on a page image of 400 x 200 pixels: boxes
\* on the left/top and right/bottom edges, one in the middle with a near
\* copy, a faint one, one with odd corners
EdgeLeftBox == RawBox(90, 0, 0, 100, 40)
MidBox == RawBox(90, 100, 100, 300, 160)
MidNearBox == RawBox(60, 104, 100, 300, 160)
EdgeRightBox == RawBox(30, 300, 160, 400, 200)
FaintBox == RawBox(20, 20, 120, 60, 150)
OddBox == RawBox(60, 3, 5, 251, 77)
RawBoxes == { EdgeLeftBox, MidBox, MidNearBox, EdgeRightBox, FaintBox, OddBox }

\* degenerate boxes, reported alone: one of no width in the page, one of no
\* extent in the lower right corner of the image
DegenerateBox == RawBox(90, 200, 100, 200, 160)
CornerBox == RawBox(90, 400, 200, 400, 200)
DegenerateReports == { <<DegenerateBox>>, <<CornerBox>> }

\* a chain of three boxes, each shifted by 20 points against the one before:
\* neighbours overlap with IoU 0.69, the first and the third with IoU 0.47
ChainSecondBox == RawBox(80, 140, 100, 340, 160)
ChainThirdBox == RawBox(70, 180, 100, 380, 160)
ChainReports == { <<MidBox, ChainSecondBox, ChainThirdBox>> }

\* caller-supplied rectangles: one over the padded middle box on either
\* page, one apart, one without pageIndex, one without x
ExistingItems ==
    { Box(0, Units(48), Units(49), Units(104), Units(32)),
      Box(1, Units(48), Units(49), Units(104), Units(32)),
      Box(0, Units(150), Units(10), Units(20), Units(10)),
      BoxNoPage(Units(48), Units(49), Units(104), Units(32)),
      [pageIndex |-> 0, y |-> Units(49), width |-> Units(104),
       height |-> Units(32)] }

\* a rectangle of the second page without width, supplied alone
NoWidthItem ==
    [pageIndex |-> 1, x |-> Units(48), y |-> Units(49), height |-> Units(32)]

ExistingPayloads ==
    { Payload("badjson", <<>>), Payload("notlist", <<>>),
      Payload("list", <<NoWidthItem>>) }
    \cup { Payload("list", items) : items \in SeqsUpTo(ExistingItems, MaxList) }

Confidences == { NoConf, Conf(50), Conf(80) }

DetectFaults ==
    { NoFault, NoYolo, BadFile, Fault("open", 1), Fault("render", 1),
      Fault("infer", 2), Fault("post", 1) }

DetectEntries == { "detect", "detect_all", "ep_detect_signatures", "ep_detect_redact" }

DetectCall(entry, payload, conf, raw, fault) ==
    [entry |-> entry, doc |-> DetectDoc, payload |-> payload, conf |-> conf,
     raw |-> raw, fault |-> fault]

\* the calls drawn: the lists of boxes with the plain calls (boxes and
\* rectangles MaxCompared together at most), and short lists with every
\* failure, confidence and payload; a direct caller passes
\* a Python value, never text, and meets no upload check
DetectDrawn(in) ==
    /\ in.entry \in {"detect", "detect_all"} =>
          (in.payload.kind # "badjson" /\ in.fault # BadFile)
    /\ \/ /\ in.entry = "detect"
          /\ in.fault = NoFault
          /\ in.conf = NoConf
          /\ in.payload.kind = "list"
          /\ Len(in.raw[1]) + Len(in.payload.items) <= MaxCompared
       \/ /\ Len(in.raw[1]) <= 1
          /\ in.raw[1] \in { <<>>, <<MidBox>>, <<EdgeRightBox>> }

InitDetect ==
    /\ \E entry \in DetectEntries, payload \in ExistingPayloads,
          conf \in Confidences, fault \in DetectFaults,
          raw1 \in SeqsUpTo(RawBoxes, MaxBoxes) \cup DegenerateReports
                       \cup ChainReports,
          raw2 \in { <<>>, <<MidBox>>, <<EdgeRightBox>> } :
          LET in == DetectCall(entry, payload, conf, <<raw1, raw2>>, fault)
          IN  /\ DetectDrawn(in)
              /\ y_in = in
              /\ y_pc = CASE entry = "detect" -> "d_start"
                          [] entry = "detect_all" -> "all"
                          [] OTHER -> entry
              /\ y_job = IF entry \in {"detect", "detect_all"}
                         THEN DetectJob(payload, conf)
                         ELSE NoDetectJob
    /\ y_det = <<>>
    /\ y_last = NoLast
    /\ y_ret = NoRet
    /\ y_resp = NoDetectResp
    /\ IdleXform
    /\ IdleDedup
    /\ IdleEngine
    /\ IdleModel
    /\ IdleAuth

NextDetect ==
    \/ DStart \/ DOpen \/ DPage \/ DBox \/ DClose
    \/ DetectAll
    \/ EpDetectSignatures \/ EpDetectSignaturesFinish
    \/ EpDetectRedactDetect \/ EpDetectRedactCombine

SpecDetect == InitDetect /\ [][NextDetect]_vars

-----------------------------------------------------------------------------
(* Claims about the detector, checked under SpecDetect *)

\* the caller's rectangles as the detector holds them
DetectExisting ==
    IF y_job.existing.kind = "list" THEN y_job.existing.items ELSE <<>>

\* the IoU of two rectangles of one page is above 0.5
Overlapping(a, b) ==
    /\ a.pageIndex = b.pageIndex
    /\ FGt(CalculateIou(a, b), FHalf)

\* C11: the list detect_signatures_yolo builds and returns holds no rectangle
\* whose IoU with a caller-supplied rectangle of the same page exceeds 0.5,
\* and no two rectangles of one page whose IoU with each other exceeds 0.5;
\* a detection at (50, 50, 100, 30) beside an existing (48, 49, 104, 32) on
\* the same page yields no new detection.
C11_NoDuplicateReturned ==
    \A list \in {y_det, y_ret.value} :
        /\ \A i \in 1..Len(list) : \A j \in 1..Len(DetectExisting) :
              WellFormed(DetectExisting[j]) => ~Overlapping(list[i], DetectExisting[j])
        /\ \A i \in 1..Len(list) : \A j \in 1..Len(list) :
              i # j => ~Overlapping(list[i], list[j])

\* C11 witness: the model reports (50, 50)-(150, 80) on page 0, where the
\* caller has (48, 49, 104, 32), and then a near copy of it; the box was
\* post-processed and the call returned no detection
C11_Witness ==
    /\ y_in.entry = "detect"
    /\ y_in.payload.items = << Box(0, Units(48), Units(49), Units(104), Units(32)) >>
    /\ y_in.raw = << <<MidBox, MidNearBox>>, <<>> >>
    /\ y_last.set /\ y_last.box = MidNearBox
    /\ y_ret.returned
    /\ y_ret.value = <<>>

\* the page the box last processed was found on, as displayed
LastPageWidth ==
    DisplayedWidth(y_in.doc[y_last.page_num + 1].rotation,
                   y_in.doc[y_last.page_num + 1].mediabox)
LastPageHeight ==
    DisplayedHeight(y_in.doc[y_last.page_num + 1].rotation,
                    y_in.doc[y_last.page_num + 1].mediabox)

\* C12: for a detector box inside the rendered page image the rectangle that
\* the scale, pad and clip steps produce has x >= 0, y >= 0,
\* x + width <= displayed page width and y + height <= displayed page
\* height (the sums as Python evaluates them).
C12_DetectionInsidePage ==
    y_last.set =>
        /\ y_last.sig.x >= 0
        /\ y_last.sig.y >= 0
        /\ FAdd(y_last.sig.x, y_last.sig.width) <= LastPageWidth
        /\ FAdd(y_last.sig.y, y_last.sig.height) <= LastPageHeight

\* C12 witness: a box at x = 0 of width 50 on the 200 wide page, and one that
\* ends on the right and lower page edge and is clipped there
C12_Witness ==
    /\ y_in.raw[1] = <<EdgeLeftBox, EdgeRightBox>>
    /\ y_det # <<>>
    /\ y_det[1].x = 0
    /\ y_det[1].width <= Units(200)
    /\ y_last.set /\ y_last.box = EdgeRightBox
    /\ FAdd(y_last.sig.x, y_last.sig.width) = Units(200)
    /\ FAdd(y_last.sig.y, y_last.sig.height) = Units(100)

\* where the claim puts the edges of the record built from a box with
\* page-space edges lo and hi on a page side of the given length: each edge
\* 5% of hi - lo further out, or on the page boundary when that would leave
\* the page
PaddedLow(lo, hi) == Max(0, FSub(lo, FMulPad(FSub(hi, lo))))
PaddedHigh(lo, hi, side) == Min(side, FAdd(hi, FMulPad(FSub(hi, lo))))

\* C13: each edge of the post-processed rectangle is 5% of the box width
\* (left, right) or height (top, bottom) outside the detector box, except
\* that an edge which would leave the page lies on the page boundary; an
\* edge that does not overflow is at its padded position also when the
\* opposite edge was clipped.
C13_PaddingPerEdge ==
    y_last.set =>
        LET x1 == FlQuot(y_last.box.x1_img, Zoom)
            y1 == FlQuot(y_last.box.y1_img, Zoom)
            x2 == FlQuot(y_last.box.x2_img, Zoom)
            y2 == FlQuot(y_last.box.y2_img, Zoom)
        IN  /\ y_last.sig.x = PaddedLow(x1, x2)
            /\ y_last.sig.y = PaddedLow(y1, y2)
            /\ FAdd(y_last.sig.x, y_last.sig.width) = PaddedHigh(x1, x2, LastPageWidth)
            /\ FAdd(y_last.sig.y, y_last.sig.height) = PaddedHigh(y1, y2, LastPageHeight)

\* the detector has returned before its loop over the pages came to an end
ReturnedEarly ==
    /\ y_ret.returned
    /\ y_job.page_num < Len(y_in.doc)

\* C14: detect_signatures_yolo never raises to its caller: when the model is
\* unavailable, or when opening the document, rendering a page, inference or
\* post-processing raises, it returns an empty list (and the caller goes on
\* with that list).
C14_DetectorReturnsEmptyOnFailure ==
    /\ y_pc \in {"d_start", "d_open", "d_page", "d_box", "d_close", "d_returned",
                "all", "ep_detect_signatures", "ep_detect_redact", "responded",
                "cover"}
    /\ ReturnedEarly => y_ret.value = <<>>
    /\ (y_ret.returned
          /\ y_in.fault \in { NoYolo, Fault("open", 1), Fault("render", 1),
                              Fault("infer", 2) })
          => (ReturnedEarly /\ y_ret.value = <<>>)
    /\ (y_in.entry = "ep_detect_signatures" /\ y_pc = "responded"
          /\ ReturnedEarly)
          => (y_resp.status = 200 /\ y_resp.signatures = <<>>)

\* C14 witness: page 0 gave a detection, the inference on page 1 raised, and
\* the call returned the empty list
C14_Witness ==
    /\ y_in.entry = "detect_all"
    /\ y_in.fault = Fault("infer", 2)
    /\ y_det # <<>>
    /\ y_ret.returned
    /\ y_ret.value = <<>>

\* a rectangle payload that is malformed: no JSON, JSON that is no array, or
\* an array with an entry that lacks a required field
Malformed(payload) ==
    \/ payload.kind \in {"badjson", "notlist"}
    \/ \E i \in 1..Len(payload.items) : ~WellFormed(payload.items[i])

\* C15: on the endpoints that take a rectangle payload a malformed payload is
\* rejected before any document is opened: no document is opened, mutated or
\* returned for that request (here: /detect-signatures and
\* /detect-and-redact-signatures).
C15_MalformedRejectedFirst ==
    (y_in.entry \in {"ep_detect_signatures", "ep_detect_redact"}
       /\ Malformed(y_in.payload)) =>
        /\ ~y_job.opened
        /\ y_pc # "cover"
        /\ y_resp.status \notin {200}

-----------------------------------------------------------------------------
(* Further claims about the engines, checked under Spec *)

\* the regions a run with the given rectangles leaves on page n when only
\* pageIndex, x, y, width and height count
RegionsByGeometry(n) ==
    { InternalRect(EngineItems[i], e_in.doc[n]) :
        i \in { j \in 1..Len(EngineItems) :
                  /\ Addresses(EngineItems[j], n)
                  /\ (RedactRun => ~TooLarge(EngineItems[j], e_in.doc[n])) } }

\* C16: text and category have no behavioural effect: what a run of
\* redact_pdf or of redact_signatures_from_bytes registers and returns is
\* fixed by the document and by pageIndex, x, y, width, height of its
\* rectangles alone, so a run with labels ends as the same run without them
\* does: when nothing but the labels could fail, with success and the
\* regions of those rectangles.
C16_LabelsHaveNoEffect ==
    (e_ret # "none" /\ e_in.fault = NoFault /\ e_in.payload.kind = "list"
       /\ \A i \in 1..Len(EngineItems) :
             /\ WellFormed(EngineItems[i])
             /\ CoverRun => ~FormatRaises(Confidence(EngineItems[i]))) =>
        /\ e_ret = IF RedactRun THEN "True" ELSE "bytes"
        /\ \A n \in 1..Len(e_in.doc) :
              IF RedactRun
              THEN RegionsByGeometry(n) \subseteq e_out.pages[n].removed
              ELSE RegionsByGeometry(n) = ShapeSet(e_out.pages[n])

\* the rectangles of the run that address page n
OnPage(n) == { i \in 1..Len(EngineItems) : Addresses(EngineItems[i], n) }

\* page now differs from page before by added shapes at most
OnlyShapesAdded(before, now) ==
    /\ now.rotation = before.rotation
    /\ now.mediabox = before.mediabox
    /\ now.annots = before.annots
    /\ now.removed = before.removed
    /\ Len(now.shapes) >= Len(before.shapes)
    /\ SubSeq(now.shapes, 1, Len(before.shapes)) = before.shapes

\* C19: redact_signatures_from_bytes is strictly additive: at every point of
\* a run each page is the uploaded page with filled shapes added, no removal
\* region is created and none applied, and a page that no rectangle
\* addresses is the uploaded page; the document returned has on every page
\* exactly one shape per rectangle that addresses the page, at its
\* transformed coordinates.
C19_CoverStrictlyAdditive ==
    (CoverRun /\ e_doc # <<>>) =>
        /\ Len(e_doc) = Len(e_in.doc)
        /\ \A n \in 1..Len(e_doc) :
              /\ OnlyShapesAdded(e_in.doc[n], e_doc[n])
              /\ Len(e_doc[n].shapes) <= Cardinality(OnPage(n))
              /\ OnPage(n) = {} => e_doc[n] = e_in.doc[n]
        /\ e_ret = "bytes" =>
              /\ e_out.pages = e_doc
              /\ \A n \in 1..Len(e_doc) :
                    /\ Len(e_doc[n].shapes) = Cardinality(OnPage(n))
                    /\ ShapeSet(e_doc[n]) =
                          { InternalRect(EngineItems[i], e_in.doc[n]) : i \in OnPage(n) }

\* C19 witness: two equal rectangles on page 0 of the document whose second
\* page carries a pending redaction annotation; the cover engine returned
\* the document with two shapes on page 0 and the second page as uploaded
C19_Witness ==
    /\ e_in.entry = "cover"
    /\ e_in.doc = DocMarked
    /\ e_in.payload.items = << Box(0, 1, 2, 1, 1), Box(0, 1, 2, 1, 1) >>
    /\ e_ret = "bytes"
    /\ e_out.pages[1].shapes = << Rect(1, 2, 2, 3), Rect(1, 2, 2, 3) >>
    /\ e_out.pages[2] = DocMarked[2]
    /\ e_out.pages[2].annots # <<>>

\* C24: a rectangle causes a region or a cover shape only on the page whose
\* zero-based index equals its pageIndex: every region registered or removed
\* by the call and every shape on a page n comes from a rectangle with
\* pageIndex = n - 1, so a rectangle whose pageIndex is not in
\* 0 .. page count - 1, a negative one included, modifies no page.
C24_OnlyOwnPageModified ==
    e_doc # <<>> =>
        \A n \in 1..Len(e_doc) :
            \A r \in CallRegions(n) \cup ShapeSet(e_doc[n]) :
                \E i \in 1..Len(EngineItems) :
                    /\ InRange(EngineItems[i])
                    /\ EngineItems[i].pageIndex = n - 1
                    /\ r = InternalRect(EngineItems[i], e_in.doc[n])

\* C27: after the /redact handler has finished, on any path, every temporary
\* file it created is deleted or scheduled for deletion: the input and the
\* rectangle file are deleted before the handler returns, the output file is
\* scheduled for deletion after the response, or is deleted before the
\* handler returns when no response carries it.
C27_TempFilesCleanedUp ==
    (e_in.entry = "ep_redact" /\ e_pc = "responded") =>
        /\ e_tmp.input \in {"none", "deleted"}
        /\ e_tmp.redactions \in {"none", "deleted"}
        /\ e_tmp.output = "file" =>
              /\ "output" \in e_tmp.scheduled
              /\ e_resp.body.present

-----------------------------------------------------------------------------
(* Further claims about the detector, checked under SpecDetect *)

\* the threshold the caller of this call asked for: the confidence_threshold
\* argument or the confidence form field, the default when none was given
SuppliedThreshold ==
    IF y_in.conf.given THEN y_in.conf.value ELSE DEFAULT_CONFIDENCE

\* C17: every detection returned has a confidence above the caller-supplied
\* threshold (the confidence_threshold argument of detect_all_signatures_yolo
\* and detect_signatures_yolo, the confidence form field of
\* /detect-signatures and /detect-and-redact-signatures); the default 0.25
\* applies only when the caller supplied none.
C17_ConfidenceAboveThreshold ==
    /\ y_ret.returned =>
          \A i \in 1..Len(y_ret.value) :
              y_ret.value[i].confidence > SuppliedThreshold
    /\ \A i \in 1..Len(y_resp.signatures) :
          y_resp.signatures[i].confidence > SuppliedThreshold

\* the rectangles the caller of the request supplied: the parsed array, none
\* when the text was no JSON
CallerRectangles ==
    IF y_in.payload.kind = "list" THEN y_in.payload.items ELSE <<>>

\* C20: in /detect-and-redact-signatures the rectangles handed to the cover
\* engine are exactly the caller-supplied rectangles followed by the
\* detections of this call, each detection once; when the detection returned
\* nothing (no signature, a detector failure) they are exactly the
\* caller-supplied rectangles.
C20_CoveredSetIsCallerThenDetected ==
    (y_in.entry = "ep_detect_redact" /\ y_pc = "cover") =>
        /\ y_resp.handed = CallerRectangles \o y_ret.value
        /\ \A i \in 1..Len(y_ret.value) :
              Cardinality({ k \in 1..Len(y_resp.handed) :
                              y_resp.handed[k] = y_ret.value[i] }) = 1
        /\ y_ret.value = <<>> => y_resp.handed = CallerRectangles

\* C20 witness: the caller supplied one rectangle, the detector found the
\* middle box on page 0 and the edge box on page 1, and the cover engine is
\* handed the three in that order
C20_Witness ==
    /\ y_in.entry = "ep_detect_redact"
    /\ y_in.payload.items = << Box(0, Units(150), Units(10), Units(20), Units(10)) >>
    /\ y_in.raw = << <<MidBox>>, <<EdgeRightBox>> >>
    /\ y_pc = "cover"
    /\ Len(y_ret.value) = 2
    /\ y_resp.handed = << y_in.payload.items[1], y_ret.value[1], y_ret.value[2] >>

-----------------------------------------------------------------------------
(* Specification SpecModel: threads calling _get_model *)

Threads == 1..MaxThreads

\* an instance is a positive number, None is 0
NoInstance == 0

ThreadLocals(calls, result) == [calls |-> calls, result |-> result]

\* returned: the instances that calls have returned; loaded: how often
\* AutoModelForObjectDetection.from_pretrained has completed; overlapped:
\* whether a call began while another call was under way
History(returned, loaded, overlapped) ==
    [returned |-> returned, loaded |-> loaded, overlapped |-> overlapped]

\* a thread calls _get_model()
GetModelEnter(t) ==
    /\ g_pc[t] = "idle"
    /\ g_loc[t].calls < MaxCalls
    /\ g_pc' = [g_pc EXCEPT ![t] = "check"]
    /\ g_loc' = [g_loc EXCEPT ![t].calls = @ + 1]
    /\ g_hist' = [g_hist EXCEPT !.overlapped =
                     @ \/ \E u \in Threads \ {t} : g_pc[u] # "idle"]
    /\ UNCHANGED <<g_model, g_processor, g_available, g_made>>

\* lines 39-40: if _model is not None: return _model
GetModelCheck(t) ==
    /\ g_pc[t] = "check"
    /\ IF g_model # NoInstance
       THEN /\ g_pc' = [g_pc EXCEPT ![t] = "idle"]
            /\ g_loc' = [g_loc EXCEPT ![t].result = g_model]
            /\ g_hist' = [g_hist EXCEPT !.returned = @ \cup {g_model}]
       ELSE /\ g_pc' = [g_pc EXCEPT ![t] = "load_processor"]
            /\ UNCHANGED <<g_loc, g_hist>>
    /\ UNCHANGED <<g_model, g_processor, g_available, g_made>>

\* lines 42-48: the import and _processor = AutoImageProcessor.from_pretrained,
\* either of which may raise
GetModelLoadProcessor(t) ==
    /\ g_pc[t] = "load_processor"
    /\ \/ /\ g_made' = g_made + 1
          /\ g_processor' = g_made + 1
          /\ g_pc' = [g_pc EXCEPT ![t] = "load_model"]
       \/ /\ g_pc' = [g_pc EXCEPT ![t] = "failed"]
          /\ UNCHANGED <<g_made, g_processor>>
    /\ UNCHANGED <<g_model, g_available, g_loc, g_hist>>

\* line 49: _model = AutoModelForObjectDetection.from_pretrained, which may
\* raise
GetModelLoadModel(t) ==
    /\ g_pc[t] = "load_model"
    /\ \/ /\ g_made' = g_made + 1
          /\ g_model' = g_made + 1
          /\ g_hist' = [g_hist EXCEPT !.loaded = @ + 1]
          /\ g_pc' = [g_pc EXCEPT ![t] = "set_available"]
       \/ /\ g_pc' = [g_pc EXCEPT ![t] = "failed"]
          /\ UNCHANGED <<g_made, g_model, g_hist>>
    /\ UNCHANGED <<g_processor, g_available, g_loc>>

\* line 50: _model_available = True
GetModelSetAvailable(t) ==
    /\ g_pc[t] = "set_available"
    /\ g_available' = TRUE
    /\ g_pc' = [g_pc EXCEPT ![t] = "return"]
    /\ UNCHANGED <<g_model, g_processor, g_made, g_loc, g_hist>>

\* line 53: return _model, the global as it is now
GetModelReturn(t) ==
    /\ g_pc[t] = "return"
    /\ g_pc' = [g_pc EXCEPT ![t] = "idle"]
    /\ g_loc' = [g_loc EXCEPT ![t].result = g_model]
    /\ g_hist' = [g_hist EXCEPT !.returned = @ \cup {g_model}]
    /\ UNCHANGED <<g_model, g_processor, g_available, g_made>>

\* lines 54-63: after either except clause, _model_available = False and
\* return None
GetModelFail(t) ==
    /\ g_pc[t] = "failed"
    /\ g_available' = FALSE
    /\ g_pc' = [g_pc EXCEPT ![t] = "idle"]
    /\ g_loc' = [g_loc EXCEPT ![t].result = NoInstance]
    /\ UNCHANGED <<g_model, g_processor, g_made, g_hist>>

\* lines 23-26: the module globals as the import leaves them
InitModel ==
    /\ g_model = NoInstance
    /\ g_processor = NoInstance
    /\ g_available = FALSE
    /\ g_made = 0
    /\ g_pc = [t \in Threads |-> "idle"]
    /\ g_loc = [t \in Threads |-> ThreadLocals(0, NoInstance)]
    /\ g_hist = History({}, 0, FALSE)
    /\ IdleXform
    /\ IdleDedup
    /\ IdleEngine
    /\ IdleDetect
    /\ IdleAuth

NextModel ==
    \E t \in Threads :
        /\ \/ GetModelEnter(t)
           \/ GetModelCheck(t)
           \/ GetModelLoadProcessor(t)
           \/ GetModelLoadModel(t)
           \/ GetModelSetAvailable(t)
           \/ GetModelReturn(t)
           \/ GetModelFail(t)
        /\ UNCHANGED <<xvars, dvars, evars, yvars, avars>>

SpecModel == InitModel /\ [][NextModel]_vars

-----------------------------------------------------------------------------
(* Claims about the model singleton, checked under SpecModel *)

\* C18: over any sequence and any interleaving of _get_model calls the model
\* load completes at most once, every call that returns an instance returns
\* the same instance, and whenever the model is set the processor is set too.
C18_LoadedOnceSharedInstance ==
    /\ g_hist.loaded <= 1
    /\ Cardinality(g_hist.returned) <= 1
    /\ g_model # NoInstance => g_processor # NoInstance

-----------------------------------------------------------------------------
(* Claims about the order of steps in redact_pdf, checked under Spec *)

\* every rectangle of the call that redact_pdf accepts is registered on its
\* page, as a pending region or as a region already removed
AllAcceptedRegistered ==
    \A i \in 1..Len(EngineItems) : \A n \in 1..Len(e_in.doc) :
        (Addresses(EngineItems[i], n) /\ ~TooLarge(EngineItems[i], e_in.doc[n]))
        => InternalRect(EngineItems[i], e_in.doc[n]) \in CallRegions(n)

\* C21: in redact_pdf no page's apply pass starts before every accepted
\* rectangle of every page has been registered as a pending region, the
\* apply pass runs at most once on a page and once on each page before the
\* save, and the document is saved only after the apply pass has run on
\* every page.
C21_RegisterApplySaveInOrder ==
    (RedactRun /\ e_doc # <<>>) =>
        /\ \A n \in 1..Len(e_doc) : e_job.applied[n] <= 1
        /\ (\E n \in 1..Len(e_doc) : e_job.applied[n] > 0) =>
              /\ AllAcceptedRegistered
              /\ e_pc \notin {"r_load", "r_annot"}
        /\ (e_pc = "r_save" \/ e_out.present \/ e_ret = "True") =>
              \A n \in 1..Len(e_doc) : e_job.applied[n] = 1

\* C21 witness: a rectangle on each of the two pages; the job returned true,
\* the apply pass ran once on each page and the file holds both removals
C21_Witness ==
    /\ e_in.entry = "redact_pdf"
    /\ e_in.doc = DocPlain
    /\ e_in.payload.items = << Box(0, 1, 2, 1, 1), Box(1, 1, 2, 1, 1) >>
    /\ e_ret = "True"
    /\ e_job.applied = <<1, 1>>
    /\ e_out.pages[1].removed # {}
    /\ e_out.pages[2].removed # {}

-----------------------------------------------------------------------------
(* The log API: verify_bearer_token (centralized_logging/endpoints.py) *)

\* a str is a sequence of characters; an absent header or environment
\* variable is None
NoStr == [set |-> FALSE, chars |-> <<>>]
Str(chars) == [set |-> TRUE, chars |-> chars]

\* the characters str.split() splits on
Whitespace == { " ", "\t" }

\* str.lower() on one character
LowerChar(c) ==
    CASE c = "B" -> "b"
      [] c = "E" -> "e"
      [] c = "A" -> "a"
      [] c = "R" -> "r"
      [] c = "K" -> "k"
      [] OTHER -> c

\* str.lower()
Lower(chars) == [i \in 1..Len(chars) |-> LowerChar(chars[i])]

\* str.split(): the maximal runs without whitespace, in order; word is the
\* run being read
RECURSIVE SplitFrom(_, _, _, _)
SplitFrom(chars, i, word, parts) ==
    IF i > Len(chars)
    THEN IF word = <<>> THEN parts ELSE Append(parts, word)
    ELSE IF chars[i] \in Whitespace
    THEN SplitFrom(chars, i + 1, <<>>,
                   IF word = <<>> THEN parts ELSE Append(parts, word))
    ELSE SplitFrom(chars, i + 1, Append(word, chars[i]), parts)

Split(chars) == SplitFrom(chars, 1, <<>>, <<>>)

\* not s, for a str or None
Falsy(s) == ~s.set \/ s.chars = <<>>

BearerLiteral == <<"b", "e", "a", "r", "e", "r">>

\* mutant: the scheme is compared as it was sent
SchemeIsBearerExact(part) == part = BearerLiteral

\* parts[0].lower() != "bearer", negated
SchemeIsBearer(part) == Lower(part) = BearerLiteral

\* verify_bearer_token: 0 when it returns, 401 when it raises HTTPException
VerifyBearerTokenStatus(expected_token, authorization) ==
    IF Falsy(expected_token) THEN 0
    ELSE IF Falsy(authorization) THEN 401
    ELSE LET parts == Split(authorization.chars)
         IN  IF Len(parts) # 2 \/ ~SchemeIsBearer(parts[1]) THEN 401
             ELSE IF parts[2] # expected_token.chars THEN 401
             ELSE 0

NoVerdict == [done |-> FALSE, status |-> 0, admitted |-> FALSE]
Verdict(status, admitted) == [done |-> TRUE, status |-> status, admitted |-> admitted]

\* a request to POST /api/logs or GET /api/logs arrives: its dependency
\* verify_bearer_token is called with the Authorization header
LogApiRequest ==
    /\ a_pc = "request"
    /\ a_pc' = "verify"
    /\ UNCHANGED <<a_in, a_out, xvars, dvars, evars, yvars, gvars>>

\* verify_bearer_token runs
VerifyBearerToken ==
    /\ a_pc = "verify"
    /\ a_out' = Verdict(VerifyBearerTokenStatus(a_in.expected_token,
                                                a_in.authorization), FALSE)
    /\ a_pc' = "verified"
    /\ UNCHANGED <<a_in, xvars, dvars, evars, yvars, gvars>>

\* the dependency raised: the request is answered 401; it returned: the
\* handler (ingest_log, query_logs) is run
LogApiAnswer ==
    /\ a_pc = "verified"
    /\ a_out' = [a_out EXCEPT !.admitted = (a_out.status = 0)]
    /\ a_pc' = "answered"
    /\ UNCHANGED <<a_in, xvars, dvars, evars, yvars, gvars>>

-----------------------------------------------------------------------------
(* Specification SpecAuth: one request to the log API *)

RECURSIVE Flatten(_)
Flatten(pieces) ==
    IF pieces = <<>> THEN <<>> ELSE Head(pieces) \o Flatten(Tail(pieces))

\* what headers are put together from: schemes, tokens, a token followed by
\* one more part, white space
HeaderPieces ==
    { BearerLiteral,
      <<"B", "E", "A", "R", "E", "R">>,
      <<"b", "e", "a", "r", "e", "r", "s">>,
      <<"k", "1">>,
      <<"K", "1">>,
      <<"k", "1", " ", "x">>,
      <<" ">>,
      <<"\t">> }

\* values of API_BEARER_TOKEN: unset, empty, two tokens that differ in case,
\* one with a blank inside
ExpectedTokens ==
    { NoStr, Str(<<>>), Str(<<"k", "1">>), Str(<<"K", "1">>),
      Str(<<"k", "1", " ", "x">>) }

LogRequest(expected_token, authorization) ==
    [expected_token |-> expected_token, authorization |-> authorization]

InitAuth ==
    /\ \E expected_token \in ExpectedTokens :
          \/ a_in = LogRequest(expected_token, NoStr)
          \/ \E pieces \in SeqsUpTo(HeaderPieces, MaxPieces) :
                a_in = LogRequest(expected_token, Str(Flatten(pieces)))
    /\ a_pc = "request"
    /\ a_out = NoVerdict
    /\ IdleXform
    /\ IdleDedup
    /\ IdleEngine
    /\ IdleDetect
    /\ IdleModel

NextAuth == LogApiRequest \/ VerifyBearerToken \/ LogApiAnswer

SpecAuth == InitAuth /\ [][NextAuth]_vars

-----------------------------------------------------------------------------
(* Claims about the log API, checked under SpecAuth *)

\* the same characters up to the case of letters
SameIgnoringCase(a, b) ==
    /\ Len(a) = Len(b)
    /\ \A i \in 1..Len(a) :
          \/ a[i] = b[i]
          \/ {a[i], b[i]} \in { {"b", "B"}, {"e", "E"}, {"a", "A"}, {"r", "R"},
                                {"k", "K"} }

NoBlank(chars) == \A i \in 1..Len(chars) : chars[i] \notin Whitespace

\* the header consists of exactly two whitespace-separated parts, the first
\* 'bearer' in any case and the second the given token: white space, then
\* the scheme at i, white space, then the token at k, then white space
IsBearerHeader(h, token) ==
    /\ token # <<>>
    /\ NoBlank(token)
    /\ \E i \in 1..Len(h), k \in 1..Len(h) :
          LET j == i + Len(BearerLiteral) - 1
              l == k + Len(token) - 1
          IN  /\ j + 1 < k
              /\ l <= Len(h)
              /\ SameIgnoringCase(SubSeq(h, i, j), BearerLiteral)
              /\ SubSeq(h, k, l) = token
              /\ \A q \in 1..Len(h) :
                    (q < i \/ (q > j /\ q < k) \/ q > l) => h[q] \in Whitespace

\* API_BEARER_TOKEN holds a token
Configured == a_in.expected_token.set /\ a_in.expected_token.chars # <<>>

\* C22: when API_BEARER_TOKEN is configured a log API request is admitted if
\* and only if its Authorization header consists of exactly two
\* whitespace-separated parts, the first equal to 'bearer' without regard to
\* case and the second equal to the configured token, and every other
\* request is answered 401; when it is not configured every request is
\* admitted.
C22_BearerTokenGate ==
    a_pc = "answered" =>
        /\ Configured =>
              /\ a_out.admitted <=>
                    /\ a_in.authorization.set
                    /\ IsBearerHeader(a_in.authorization.chars,
                                      a_in.expected_token.chars)
              /\ ~a_out.admitted => a_out.status = 401
        /\ ~Configured => a_out.admitted

\* C22 witness: with the token k1 configured, the header " BEARER\tk1", which
\* begins with a blank and separates by a tab, was admitted
C22_Witness ==
    /\ a_pc = "answered"
    /\ a_in.expected_token = Str(<<"k", "1">>)
    /\ a_in.authorization =
          Str(<<" ", "B", "E", "A", "R", "E", "R", "\t", "k", "1">>)
    /\ a_out.admitted

-----------------------------------------------------------------------------
(* Claims about the rectangles of the detector, checked under SpecDetect *)

\* C25: every rectangle returned by detect_signatures_yolo has width > 0 and
\* height > 0, for every detector box inside the rendered image, degenerate
\* boxes and boxes that start on the right or bottom page edge included.
C25_DetectionHasPositiveSize ==
    \A list \in {y_det, y_ret.value} :
        \A i \in 1..Len(list) :
            /\ list[i].width > 0
            /\ list[i].height > 0

\* the detector box last processed, in page points
LastBoxPoints ==
    [x1 |-> FlQuot(y_last.box.x1_img, Zoom), y1 |-> FlQuot(y_last.box.y1_img, Zoom),
     x2 |-> FlQuot(y_last.box.x2_img, Zoom), y2 |-> FlQuot(y_last.box.y2_img, Zoom)]

\* C26: for a detector box that lies inside the page, the rectangle built by
\* scaling, padding and clipping contains the whole unpadded box in page
\* points: x <= x1, y <= y1, x + width >= x2 and y + height >= y2 (the sums
\* as Python evaluates them).
C26_DetectionContainsBox ==
    (/\ y_last.set
     /\ LastBoxPoints.x1 >= 0
     /\ LastBoxPoints.y1 >= 0
     /\ LastBoxPoints.x2 <= LastPageWidth
     /\ LastBoxPoints.y2 <= LastPageHeight) =>
        /\ y_last.sig.x <= LastBoxPoints.x1
        /\ y_last.sig.y <= LastBoxPoints.y1
        /\ FAdd(y_last.sig.x, y_last.sig.width) >= LastBoxPoints.x2
        /\ FAdd(y_last.sig.y, y_last.sig.height) >= LastBoxPoints.y2

\* C26 witness: the box that ends in the lower right corner of the page was
\* padded to the left and upwards and clipped on the page edges, where the
\* box itself ends
C26_Witness ==
    /\ y_last.set
    /\ y_last.box = EdgeRightBox
    /\ y_last.sig.x < LastBoxPoints.x1
    /\ y_last.sig.y < LastBoxPoints.y1
    /\ FAdd(y_last.sig.x, y_last.sig.width) = LastBoxPoints.x2
    /\ LastBoxPoints.x2 = LastPageWidth
    /\ y_last.sig \in { y_det[i] : i \in 1..Len(y_det) }
-----------------------------------------------------------------------------
(* Claims about deduplication within one call, checked under SpecDetect *)

\* the rectangles built from the boxes of page p (counted from 1) that passed
\* the threshold, in the detector's output order
PageSignatures(p) ==
    LET results == PostProcessObjectDetection(y_in.raw[p], y_job.threshold)
    IN  [k \in 1..Len(results) |-> PostProcess(results[k], p - 1, y_in.doc[p])]

ReturnedSignatures == { y_ret.value[i] : i \in 1..Len(y_ret.value) }

\* the rectangle overlaps one of the caller's rectangles
OverlapsExisting(sig) ==
    \E j \in 1..Len(DetectExisting) :
        /\ WellFormed(DetectExisting[j])
        /\ Overlapping(sig, DetectExisting[j])

\* the call has gone through all pages and returned
ReturnedAfterAllPages == y_ret.returned /\ ~ReturnedEarly

\* detected_signatures changes only by one rectangle appended at its end, and
\* the return after the last page hands out detected_signatures itself
AcceptedIsKept ==
    /\ y_det' # y_det =>
          /\ Len(y_det') = Len(y_det) + 1
          /\ SubSeq(y_det', 1, Len(y_det)) = y_det
    /\ (~y_ret.returned /\ y_ret'.returned /\ y_job'.page_num >= Len(y_in.doc))
          => y_ret'.value = y_det

\* of two overlapping boxes of one page, neither on a caller's rectangle,
\* the earlier is returned and the later is not (whenever earlier(p, i) holds)
FirstOfPairKept(earlier(_, _)) ==
    ReturnedAfterAllPages =>
        \A p \in 1..Len(y_in.doc) :
            \A i \in 1..Len(PageSignatures(p)) : \A j \in 1..Len(PageSignatures(p)) :
                LET si == PageSignatures(p)[i]
                    sj == PageSignatures(p)[j]
                IN  (/\ i < j
                     /\ Overlapping(si, sj)
                     /\ ~OverlapsExisting(si)
                     /\ ~OverlapsExisting(sj)
                     /\ earlier(p, i)) =>
                        /\ si \in ReturnedSignatures
                        /\ sj # si => sj \notin ReturnedSignatures

AnyBox(p, i) == TRUE

\* no rectangle accepted from an earlier box of the page overlaps box i
OverlapsNoneAccepted(p, i) ==
    \A h \in 1..(i - 1) :
        PageSignatures(p)[h] \in ReturnedSignatures
            => ~Overlapping(PageSignatures(p)[h], PageSignatures(p)[i])

\* C28 as stated: when two detector boxes of one page have IoU above 0.5 with
\* each other and neither overlaps an existing rectangle, the earlier one in
\* the detector's output order is returned and the later one is dropped,
\* whatever their confidences; a box once accepted is never removed or
\* replaced later in the call.
C28_FirstComeFirstKept ==
    [](FirstOfPairKept(AnyBox)) /\ [][AcceptedIsKept]_vars

\* C28, amended: the same for two such boxes of which the earlier overlaps no
\* rectangle accepted before it on the page (the rectangles compared are the
\* scaled, padded and clipped ones).
C28_FirstAcceptedOfPairKept ==
    [](FirstOfPairKept(OverlapsNoneAccepted)) /\ [][AcceptedIsKept]_vars

\* C28 witness: the box of confidence 0.6 was reported before its near copy
\* of confidence 0.9, and the call returned the rectangle of the first alone
C28_Witness ==
    /\ y_in.raw = << <<MidNearBox, MidBox>>, <<>> >>
    /\ y_in.payload = Payload("list", <<>>)
    /\ ReturnedAfterAllPages
    /\ y_ret.value = << PostProcess(MidNearBox, 0, y_in.doc[1]) >>
-----------------------------------------------------------------------------
(* Claims about a failure on a later page, checked under SpecDetect *)

\* the call returned while a page of the opened document was being processed
RaisedOnPage ==
    /\ y_ret.returned
    /\ y_job.opened
    /\ y_job.page_num < Len(y_in.doc)

\* rendering or inference fails on the page reached, and the page is past
\* its rendering and inference step
RenderOrInferenceFailed ==
    /\ y_job.opened
    /\ y_in.fault \in { Fault("render", y_job.page_num + 1),
                        Fault("infer", y_job.page_num + 1) }
    /\ y_pc # "d_page"

\* the box last processed lies on the page reached, and the comparison with
\* the caller's rectangles came to one of that page without x, y, width or
\* height before it came to one that the box duplicates
MetIncompleteRectangle ==
    /\ y_last.set
    /\ y_last.page_num = y_job.page_num
    /\ \E j \in 1..Len(DetectExisting) :
          /\ ~PageIndexDiffers(DetectExisting[j], y_last.sig)
          /\ ~(RectKeys \subseteq DOMAIN DetectExisting[j])
          /\ \A h \in 1..(j - 1) :
                \/ PageIndexDiffers(DetectExisting[h], y_last.sig)
                \/ /\ RectKeys \subseteq DOMAIN DetectExisting[h]
                   /\ ~Overlapping(y_last.sig, DetectExisting[h])

\* C29: the result of detect_signatures_yolo is all-or-nothing across pages:
\* when the processing of a page raises (rendering, inference, an existing
\* rectangle of that page without x, y, width or height) the call returns
\* the empty list, and none of the detections accepted on earlier pages.
C29_AllOrNothingAcrossPages ==
    /\ RaisedOnPage => y_ret.value = <<>>
    /\ RenderOrInferenceFailed => RaisedOnPage
    /\ MetIncompleteRectangle => RaisedOnPage

\* C29 witness: the first page gave a detection, the box of the second page
\* met the caller's rectangle without width, and the call returned the empty
\* list
C29_Witness ==
    /\ y_in.payload = Payload("list", <<NoWidthItem>>)
    /\ y_job.page_num = 1
    /\ MetIncompleteRectangle
    /\ Len(y_det) = 1 /\ y_det[1].pageIndex = 0
    /\ y_ret.returned
    /\ y_ret.value = <<>>
-----------------------------------------------------------------------------
(* Claims about the headers of /detect-and-redact-signatures, checked under
   Spec *)

\* the shapes on the first n pages of a document
RECURSIVE ShapeCount(_, _)
ShapeCount(pages, n) ==
    IF n = 0 THEN 0 ELSE ShapeCount(pages, n - 1) + Len(pages[n].shapes)

\* the cover shapes drawn on the document of the response
ShapesDrawn ==
    ShapeCount(e_resp.body.pages, Len(e_resp.body.pages))
        - ShapeCount(e_in.doc, Len(e_in.doc))

HeaderIs(name, value) ==
    \A h \in e_resp.headers : h[1] = name => h[2] = value

\* the response of the handler carries a document from the cover engine
CoveredDocumentSent ==
    /\ e_in.entry = "ep_detect"
    /\ e_pc = "responded"
    /\ e_resp.status = 200
    /\ e_resp.body.present
    /\ e_resp.body.resaved

\* C30: in every /detect-and-redact-signatures response that carries a
\* covered document, X-Signatures-Redacted is the number of cover shapes
\* drawn on the document and X-Signatures-Detected the number of detections
\* the detector returned for the call.
C30_HeadersCountShapesAndDetections ==
    CoveredDocumentSent =>
        /\ { h[1] : h \in e_resp.headers } =
              {"X-Signatures-Detected", "X-Signatures-Redacted"}
        /\ HeaderIs("X-Signatures-Redacted", ShapesDrawn)
        /\ HeaderIs("X-Signatures-Detected", Len(e_in.detected))

\* the same for X-Signatures-Detected alone
DetectedHeaderCountsDetections ==
    CoveredDocumentSent => HeaderIs("X-Signatures-Detected", Len(e_in.detected))

\* the same when every rectangle sent to the cover engine names a page below
\* the page count
RedactedHeaderCountsShapesInRange ==
    (CoveredDocumentSent
       /\ \A i \in 1..Len(e_job.sigs) :
              ~PageOutOfRange(e_job.sigs[i].pageIndex, e_in.doc))
        => HeaderIs("X-Signatures-Redacted", ShapesDrawn)

====
